---- MODULE Spec2Model ----
(***************************************************************************)
(* Image generation in mosgarage-DevServer: the Gemini provider adapter    *)
(* (GeminiHandler.generateImage, GeminiHandler.calculateCost), the model   *)
(* catalog and the generate_image tool (generateImageTool).                *)
(*                                                                         *)
(* Strings are sequences of tokens (a token is an atomic piece of text:    *)
(* "data:", "image/", "png", ";base64,", one payload character, ...), so   *)
(* that matching, prefix tests, replacement and concatenation are real     *)
(* operations on the text.  An optional value (a TypeScript `T |           *)
(* undefined`) is a sequence of length 0 (undefined) or 1.                 *)
(***************************************************************************)
EXTENDS Integers, Sequences, FiniteSets, TLC

VARIABLES
    \* ---- GeminiHandler.generateImage (one invocation) ----
    gPc,            \* "ready" | "awaiting" (at the await of generateContent) | "done"
    gApiKey,        \* the apiKey argument (optional string)
    gVertex,        \* this.options.vertexProjectId is set
    gInputImage,    \* the inputImage argument (optional string)
    gClient,        \* which client the invocation uses: "none" | "temp" | "own"
    gRequest,       \* the parameters handed to generateContent (optional)
    gCalls,         \* number of client.models.generateContent calls so far
    gOutcome,       \* what the transport did (optional)
    gResult,        \* the ImageGenerationResult returned (optional)
    gEscaped,       \* an exception left generateImage
    \* ---- GeminiHandler.calculateCost (one call) ----
    cPc,            \* "ready" | "done"
    cInfo,          \* the ModelInfo: inputPrice?, outputPrice?, cacheReadsPrice?, tiers?
    cInputTokens,   \* inputTokens
    cOutputTokens,  \* outputTokens
    cCacheReadTokens, \* cacheReadTokens (optional, defaults to 0)
    cTrace,         \* the local `trace` built by the call (optional)
    cReturnedTrace, \* the breakdown that reaches the caller with the return value
    cReturn,        \* what the call returned: None before, then <<value>>, value optional
    \* ---- generateImageTool (one invocation) ----
    tPc,            \* "start" | "input" | "settings" | "approval" | "generating" | "done"
    tBlock,         \* block.partial and block.params: prompt, path, image
    tState,         \* the settings snapshot of provider?.getState() (optional)
    tEnv,           \* what the collaborators answered, "unasked" until consulted
    tLocals,        \* inputImageData, selectedProvider, selectedModel, apiKey, result
    tSays,          \* cline.say(...) calls, in order
    tToolResults,   \* pushToolResult(...) calls, in order
    tMistakes,      \* cline.consecutiveMistakeCount
    tToolErrors,    \* number of cline.recordToolError calls
    tAsks,          \* askApproval(...) calls, in order
    tAdapterCalls,  \* generateImage calls on either adapter, in order
    tMkdirs,        \* fs.mkdir calls, in order
    tWrites,        \* fs.writeFile calls that completed, in order
    tTracked,       \* fileContextTracker.trackFileContext calls, in order
    tDidEditFile,   \* cline.didEditFile
    tToolUsage,     \* number of cline.recordToolUsage calls
    tHandled,       \* handleError(...) calls, in order
    \* ---- the model catalog (queries made by callers) ----
    qLog,           \* getImageGenerationModelsForProvider calls: provider and result
    qAll,           \* results of getAllImageGenerationModels calls
    \* ---- GeminiHandler.createMessage (one stream) ----
    sPc,            \* "ready" | "streaming" | "done" | "failed"
    sInfo,          \* the price table of getModel().info
    sChunks,        \* the chunks received so far, in arrival order
    sLastUsageMetadata,         \* the local of that name (optional)
    sPendingGroundingMetadata,  \* the local of that name (optional)
    sEvents,        \* the events yielded so far, in order
    sThrown         \* the error thrown out of the generator (optional)

gvars == <<gPc, gApiKey, gVertex, gInputImage, gClient, gRequest, gCalls,
           gOutcome, gResult, gEscaped>>

cvars == <<cPc, cInfo, cInputTokens, cOutputTokens, cCacheReadTokens, cTrace,
           cReturnedTrace, cReturn>>

tvars == <<tPc, tBlock, tState, tEnv, tLocals, tSays, tToolResults, tMistakes,
           tToolErrors, tAsks, tAdapterCalls, tMkdirs, tWrites, tTracked,
           tDidEditFile, tToolUsage, tHandled>>

qvars == <<qLog, qAll>>

svars == <<sPc, sInfo, sChunks, sLastUsageMetadata, sPendingGroundingMetadata,
           sEvents, sThrown>>

----------------------------------------------------------------------------
(* Optional values and strings *)

None == <<>>
Some(v) == <<v>>
IsSome(o) == Len(o) > 0
Get(o) == o[1]

\* JavaScript truthiness of an optional string: undefined and "" are falsy.
TruthyStr(o) == IsSome(o) /\ Len(Get(o)) > 0

\* `${x}` of an optional string: undefined prints as the text "undefined".
TemplateStr(o) == IF IsSome(o) THEN Get(o) ELSE <<"undefined">>

\* String.prototype.startsWith
StartsWith(s, p) == Len(s) >= Len(p) /\ SubSeq(s, 1, Len(p)) = p

\* Index of the first occurrence of token t in s, 0 when there is none.
IndexOf(s, t) ==
    IF \E i \in 1..Len(s) : s[i] = t
    THEN CHOOSE i \in 1..Len(s) : s[i] = t /\ \A j \in 1..(i - 1) : s[j] # t
    ELSE 0

\* String.prototype.replace(t, r) with a string pattern: the FIRST occurrence only.
ReplaceFirst(s, t, r) ==
    LET i == IndexOf(s, t)
    IN  IF i = 0 THEN s ELSE SubSeq(s, 1, i - 1) \o r \o SubSeq(s, i + 1, Len(s))

\* All sequences over S of length 0..n.
SeqsUpTo(S, n) == UNION {[1..k -> S] : k \in 0..n}

\* generateImageTool before it has run: no collaborator has answered yet and no
\* local is assigned.
EnvUnasked ==
    [access |-> "unasked", inputExists |-> "unasked", inputAccess |-> "unasked",
     read |-> "unasked", readMessage |-> <<>>, writeProtected |-> "unasked",
     approved |-> "unasked", fs |-> "unasked"]

NoLocals ==
    [inputImageData |-> None, selectedProvider |-> "", selectedModel |-> None,
     apiKey |-> None, result |-> None]

----------------------------------------------------------------------------
(* GeminiHandler.generateImage: data of one invocation *)

\* An ImageGenerationResult: every field but success is optional.
Success(imageData, imageFormat) ==
    [success |-> TRUE, imageData |-> Some(imageData),
     imageFormat |-> Some(imageFormat), error |-> None]

Failure(message) ==
    [success |-> FALSE, imageData |-> None, imageFormat |-> None,
     error |-> Some(message)]

\* A Part of the provider SDK: text?, inlineData?: {mimeType?, data?}.
TextPart(text) == [text |-> Some(text), inlineData |-> None]
InlinePart(mimeType, data) ==
    [text |-> None, inlineData |-> Some([mimeType |-> mimeType, data |-> data])]

\* A plausible slip: the subtype alternation left out of the pattern.
MatchImageDataUrl_AnySubtype(s) ==
    IF /\ Len(s) >= 5
       /\ s[1] = "data:"
       /\ s[2] = "image/"
       /\ s[4] = ";base64,"
       /\ \A i \in 5..Len(s) : s[i] # "\n"
    THEN Some([format |-> s[3], base64 |-> SubSeq(s, 5, Len(s))])
    ELSE None

\* inputImage.match(/^data:image\/(png|jpeg|jpg);base64,(.+)$/): the two groups,
\* or None.  `.` matches no line terminator and `$` only the end of the text.
MatchImageDataUrl(s) ==
    IF /\ Len(s) >= 5
       /\ s[1] = "data:"
       /\ s[2] = "image/"
       /\ s[3] \in {"png", "jpeg", "jpg"}
       /\ s[4] = ";base64,"
       /\ \A i \in 5..Len(s) : s[i] # "\n"
    THEN Some([format |-> s[3], base64 |-> SubSeq(s, 5, Len(s))])
    ELSE None

\* Which client the invocation uses: a temporary one built from apiKey, or this.client.
ChooseClient(apiKey, vertexProjectId) ==
    IF TruthyStr(apiKey) /\ ~vertexProjectId THEN "temp" ELSE "own"

\* The request contents, or None when the input image is rejected.
BuildContents(prompt, inputImage) ==
    IF TruthyStr(inputImage)
    THEN LET base64Match == MatchImageDataUrl(Get(inputImage))
         IN  IF ~IsSome(base64Match)
             THEN None
             ELSE LET mimeType == IF Get(base64Match).format = "jpg"
                                  THEN <<"image/", "jpeg">>
                                  ELSE <<"image/", Get(base64Match).format>>
                      base64Data == Get(base64Match).base64
                  IN  Some(<<TextPart(prompt),
                             InlinePart(Some(mimeType), Some(base64Data))>>)
    ELSE Some(<<TextPart(prompt)>>)

InvalidInputResult ==
    Failure(<<"Invalid input image format. Expected base64 data URL.">>)

\* temperature of the image request
ImageTemperature == 1

BuildParams(model, contents) ==
    [model |-> model, contents |-> contents, temperature |-> ImageTemperature]

\* A plausible slip: the startsWith("image/") test left out.
IsImagePart_AnyMime(part) ==
    /\ IsSome(part.inlineData)
    /\ IsSome(Get(part.inlineData).mimeType)

\* The part the loop over candidate.content.parts stops at: the index of the first
\* part with inlineData whose mimeType starts with "image/", 0 when there is none.
IsImagePart(part) ==
    /\ IsSome(part.inlineData)
    /\ IsSome(Get(part.inlineData).mimeType)
    /\ StartsWith(Get(Get(part.inlineData).mimeType), <<"image/">>)

FindImagePart(parts) ==
    IF \E i \in 1..Len(parts) : IsImagePart(parts[i])
    THEN CHOOSE i \in 1..Len(parts) :
            IsImagePart(parts[i]) /\ \A j \in 1..(i - 1) : ~IsImagePart(parts[j])
    ELSE 0

\* imageFormat = mimeType.replace("image/", "").replace("jpeg", "jpg")
ImageFormatOf(mimeType) ==
    ReplaceFirst(ReplaceFirst(mimeType, "image/", <<>>), "jpeg", <<"jpg">>)

\* imageData = `data:${mimeType};base64,${data}`
ImageDataOf(mimeType, data) ==
    <<"data:">> \o mimeType \o <<";base64,">> \o TemplateStr(data)

\* Everything after the await: the response turned into a result.
ExtractImage(response) ==
    IF ~IsSome(response.candidates) \/ Len(Get(response.candidates)) = 0
    THEN Failure(<<"No candidates returned in the response">>)
    ELSE LET candidate == Get(response.candidates)[1]
         IN  IF ~IsSome(candidate.content) \/ ~IsSome(Get(candidate.content).parts)
             THEN Failure(<<"No content parts in the response">>)
             ELSE LET parts == Get(Get(candidate.content).parts)
                      i == FindImagePart(parts)
                  IN  IF i = 0
                      THEN Failure(<<"No image data found in the response">>)
                      ELSE LET inlineData == Get(parts[i].inlineData)
                               mimeType == Get(inlineData.mimeType)
                               imageData == ImageDataOf(mimeType, inlineData.data)
                           IN  IF Len(imageData) = 0
                               THEN Failure(<<"No image data found in the response">>)
                               ELSE Success(imageData, ImageFormatOf(mimeType))

\* The catch block: what a thrown value becomes.
CatchError(thrown) ==
    LET errorMessage == IF thrown.kind = "error"
                        THEN thrown.message
                        ELSE <<"Unknown error occurred">>
    IN  Failure(<<"Failed to generate image: ">> \o errorMessage)

\* A plausible slip: the catch block rethrows instead of returning a result.
Settle_Rethrow(outcome) ==
    IF outcome.kind = "response"
    THEN [result |-> Some(ExtractImage(outcome.response)), escaped |-> FALSE]
    ELSE [result |-> None, escaped |-> TRUE]

\* How the invocation ends once the transport has answered or thrown.
Settle(outcome) ==
    IF outcome.kind = "response"
    THEN [result |-> Some(ExtractImage(outcome.response)), escaped |-> FALSE]
    ELSE [result |-> Some(CatchError(outcome)), escaped |-> FALSE]

----------------------------------------------------------------------------
(* GeminiHandler.calculateCost *)

\* Prices are counted in half currency units per million tokens (so that a tier
\* price of 0.5 is the integer 1), and a cost is kept as the exact product
\* price * tokens, that is in units of 1 / (PriceScale * PerMillion) of the
\* currency: cost = price * (tokens / 1_000_000) in exact arithmetic.
PriceScale == 2
PerMillion == 1000000

\* !x of an optional number: undefined and 0 are falsy.
FalsyNum(o) == ~IsSome(o) \/ Get(o) = 0

\* A plausible slip: a || b, which also replaces a defined 0.
Nullish_Or(a, b) == IF IsSome(a) /\ Get(a) # 0 THEN Get(a) ELSE b

\* a ?? b
Nullish(a, b) == IF IsSome(a) THEN Get(a) ELSE b

\* if (!info.inputPrice || !info.outputPrice || !info.cacheReadsPrice)
PricesUnavailable(info) ==
    FalsyNum(info.inputPrice) \/ FalsyNum(info.outputPrice) \/ FalsyNum(info.cacheReadsPrice)

\* info.tiers.find((tier) => inputTokens <= tier.contextWindow)
FindTier(tiers, inputTokens) ==
    IF \E i \in 1..Len(tiers) : inputTokens <= tiers[i].contextWindow
    THEN Some(tiers[CHOOSE i \in 1..Len(tiers) :
                      /\ inputTokens <= tiers[i].contextWindow
                      /\ \A j \in 1..(i - 1) : ~(inputTokens <= tiers[j].contextWindow)])
    ELSE None

\* The three prices in force: the base prices, overridden field by field by the
\* selected tier.
EffectivePrices(info, inputTokens) ==
    LET base == [inputPrice |-> Get(info.inputPrice),
                 outputPrice |-> Get(info.outputPrice),
                 cacheReadsPrice |-> Get(info.cacheReadsPrice)]
        tier == IF IsSome(info.tiers) THEN FindTier(Get(info.tiers), inputTokens) ELSE None
    IN  IF IsSome(tier)
        THEN [inputPrice |-> Nullish(Get(tier).inputPrice, base.inputPrice),
              outputPrice |-> Nullish(Get(tier).outputPrice, base.outputPrice),
              cacheReadsPrice |-> Nullish(Get(tier).cacheReadsPrice, base.cacheReadsPrice)]
        ELSE base

\* The local `trace` and the total of one call with prices in force.
CostTrace(info, inputTokens, outputTokens, cacheReadTokensArg) ==
    LET cacheReadTokens == Nullish(cacheReadTokensArg, 0)
        prices == EffectivePrices(info, inputTokens)
        uncachedInputTokens == inputTokens - cacheReadTokens
        cacheReadCost == IF cacheReadTokens > 0
                         THEN prices.cacheReadsPrice * cacheReadTokens ELSE 0
        inputTokensCost == prices.inputPrice * uncachedInputTokens
        outputTokensCost == prices.outputPrice * outputTokens
    IN  [totalCost |-> inputTokensCost + outputTokensCost + cacheReadCost,
         input |-> [price |-> prices.inputPrice, tokens |-> uncachedInputTokens,
                    cost |-> inputTokensCost],
         output |-> [price |-> prices.outputPrice, tokens |-> outputTokens,
                     cost |-> outputTokensCost],
         cacheRead |-> IF cacheReadTokens > 0
                       THEN Some([price |-> prices.cacheReadsPrice,
                                  tokens |-> cacheReadTokens, cost |-> cacheReadCost])
                       ELSE None]

\* A plausible slip: the cache-read price is required only when cache-read tokens
\* are billed.
CalculateCost_CacheOptional(info, inputTokens, outputTokens, cacheReadTokensArg) ==
    LET patched == IF Nullish(cacheReadTokensArg, 0) = 0 /\ ~IsSome(info.cacheReadsPrice)
                   THEN [info EXCEPT !.cacheReadsPrice = Some(1)]
                   ELSE info
    IN  IF PricesUnavailable(patched)
        THEN None
        ELSE Some(CostTrace(patched, inputTokens, outputTokens, cacheReadTokensArg).totalCost)

\* The value calculateCost returns: undefined (None) or the total cost.
CalculateCost(info, inputTokens, outputTokens, cacheReadTokensArg) ==
    IF PricesUnavailable(info)
    THEN None
    ELSE Some(CostTrace(info, inputTokens, outputTokens, cacheReadTokensArg).totalCost)

\* Inputs explored.
TokenStep == 500000
MaxInputSteps == 4
MaxOutputSteps == 1
MaxTiers == 2

InputTokenCounts == {k * TokenStep : k \in 0..MaxInputSteps}
OutputTokenCounts == {k * TokenStep : k \in 0..MaxOutputSteps}
CacheReadTokenCounts == {None} \cup {Some(n) : n \in InputTokenCounts}

\* Base prices 2, 10 and 1 (the worked example), each also absent or 0.
InputPrices == {None, Some(0), Some(2 * PriceScale)}
OutputPrices == {None, Some(0), Some(10 * PriceScale)}
CacheReadsPrices == {None, Some(0), Some(1 * PriceScale)}

Tier(contextWindow, inputPrice, outputPrice, cacheReadsPrice) ==
    [contextWindow |-> contextWindow, inputPrice |-> inputPrice,
     outputPrice |-> outputPrice, cacheReadsPrice |-> cacheReadsPrice]

\* Tiers: input price 1 up to 128000 tokens, input price 0.5 up to 1000000, and
\* a tier overriding the other two prices (the cache-read price with 0).
TierKinds ==
    {Tier(128000, Some(PriceScale), None, None),
     Tier(1000000, Some(1), None, None),
     Tier(1000000, None, Some(15 * PriceScale), Some(0))}

ModelInfos ==
    {[inputPrice |-> i, outputPrice |-> o, cacheReadsPrice |-> c, tiers |-> t] :
        i \in InputPrices, o \in OutputPrices, c \in CacheReadsPrices,
        t \in {None} \cup {Some(ts) : ts \in SeqsUpTo(TierKinds, MaxTiers)}}

NoModelInfo == [inputPrice |-> None, outputPrice |-> None, cacheReadsPrice |-> None,
                tiers |-> None]

CostInit ==
    /\ cPc = "ready"
    /\ cInfo \in ModelInfos
    /\ cInputTokens \in InputTokenCounts
    /\ cOutputTokens \in OutputTokenCounts
    /\ cCacheReadTokens \in CacheReadTokenCounts
    /\ cTrace = None
    /\ cReturnedTrace = None
    /\ cReturn = None
    \* no generateImage invocation in this run
    /\ gPc = "idle"
    /\ gApiKey = None
    /\ gVertex = FALSE
    /\ gInputImage = None
    /\ gClient = "none"
    /\ gRequest = None
    /\ gCalls = 0
    /\ gOutcome = None
    /\ gResult = None
    /\ gEscaped = FALSE
    \* no generateImageTool invocation in this run
    /\ tPc = "idle"
    /\ tBlock = [partial |-> FALSE, prompt |-> None, path |-> None, image |-> None]
    /\ tState = None
    /\ tEnv = EnvUnasked
    /\ tLocals = NoLocals
    /\ tSays = <<>>
    /\ tToolResults = <<>>
    /\ tMistakes = 0
    /\ tToolErrors = 0
    /\ tAsks = <<>>
    /\ tAdapterCalls = <<>>
    /\ tMkdirs = <<>>
    /\ tWrites = <<>>
    /\ tTracked = <<>>
    /\ tDidEditFile = FALSE
    /\ tToolUsage = 0
    /\ tHandled = <<>>
    \* no catalog query and no createMessage stream in this run
    /\ qLog = <<>>
    /\ qAll = <<>>
    /\ sPc = "idle"
    /\ sInfo = [inputPrice |-> None, outputPrice |-> None, cacheReadsPrice |-> None,
                tiers |-> None]
    /\ sChunks = <<>>
    /\ sLastUsageMetadata = None
    /\ sPendingGroundingMetadata = None
    /\ sEvents = <<>>
    /\ sThrown = None

\* One call of calculateCost, start to return.
CostCall ==
    /\ cPc = "ready"
    /\ cReturn' = Some(CalculateCost(cInfo, cInputTokens, cOutputTokens, cCacheReadTokens))
    /\ cTrace' = IF PricesUnavailable(cInfo) THEN None
                 ELSE Some(CostTrace(cInfo, cInputTokens, cOutputTokens, cCacheReadTokens))
    \* `return totalCost`: the number alone is returned, `trace` stays behind
    /\ cReturnedTrace' = None
    /\ cPc' = "done"
    /\ UNCHANGED <<cInfo, cInputTokens, cOutputTokens, cCacheReadTokens>>
    /\ UNCHANGED <<gvars, tvars, qvars, svars>>

----------------------------------------------------------------------------
(* The inputs and transport behaviours explored *)

MaxPayload == 2           \* payload characters of an input data URL
MaxParts == 2             \* content parts of the first candidate
MaxOtherCandidates == 1   \* candidates after the first one

Prompt == <<"a cat">>
GeminiModelId == <<"gemini-2.5-flash-image-preview">>

ApiKeys == {None, Some(<<"key">>)}

\* Input strings: the empty string, and <head><subtype><separator><payload> with
\* each piece right or wrong (a payload may be empty or hold a line break).
InputHeads == {<<"data:", "image/">>, <<"data:", "text/">>, <<"image/">>,
               <<" ", "data:", "image/">>}
InputSubtypes == {"png", "jpeg", "jpg", "gif", "webp"}
InputSeparators == {<<";base64,">>, <<",">>}
InputPayloads == SeqsUpTo({"A", "\n"}, MaxPayload)

InputStrings ==
    {<<>>} \cup {h \o <<t>> \o p \o d : h \in InputHeads, t \in InputSubtypes,
                                        p \in InputSeparators, d \in InputPayloads}

InputImages == {None} \cup {Some(s) : s \in InputStrings}

\* Response shapes: every field the SDK types as optional is present or absent.
ImageMimeTypes == {<<"image/", "png">>, <<"image/", "jpeg">>, <<"image/", "webp">>}
PartData == {None, Some(<<>>), Some(<<"A">>)}

PartKinds ==
    {TextPart(<<"here is your image">>),
     InlinePart(None, Some(<<"A">>)),
     InlinePart(Some(<<"text/", "plain">>), Some(<<"A">>))}
    \cup {InlinePart(Some(m), d) : m \in ImageMimeTypes, d \in PartData}

Candidate(parts) == [content |-> Some([parts |-> parts])]
NoContentCandidate == [content |-> None]

FirstCandidates ==
    {NoContentCandidate, Candidate(None)}
    \cup {Candidate(Some(ps)) : ps \in SeqsUpTo(PartKinds, MaxParts)}

OtherCandidates ==
    {NoContentCandidate,
     Candidate(Some(<<InlinePart(Some(<<"image/", "gif">>), Some(<<"Z">>))>>))}

Responses ==
    {[candidates |-> None], [candidates |-> Some(<<>>)]}
    \cup {[candidates |-> Some(<<c>> \o rest)] :
            c \in FirstCandidates, rest \in SeqsUpTo(OtherCandidates, MaxOtherCandidates)}

ErrorMessages == {<<>>, <<"fetch failed">>}

\* What client.models.generateContent can do: resolve with a response, reject with
\* an Error carrying a message, or reject with a value that is no Error.
TransportOutcomes ==
    {[kind |-> "response", response |-> r, message |-> <<>>] : r \in Responses}
    \cup {[kind |-> "error", response |-> [candidates |-> None], message |-> m] :
            m \in ErrorMessages}
    \cup {[kind |-> "thrown", response |-> [candidates |-> None], message |-> <<>>]}

----------------------------------------------------------------------------
(* GeminiHandler.generateImage as two steps around its single await *)

GenInit ==
    /\ gPc = "ready"
    /\ gApiKey \in ApiKeys
    /\ gVertex \in BOOLEAN
    /\ gInputImage \in InputImages
    /\ gClient = "none"
    /\ gRequest = None
    /\ gCalls = 0
    /\ gOutcome = None
    /\ gResult = None
    /\ gEscaped = FALSE
    \* no calculateCost call in this run
    /\ cPc = "idle"
    /\ cInfo = NoModelInfo
    /\ cInputTokens = 0
    /\ cOutputTokens = 0
    /\ cCacheReadTokens = None
    /\ cTrace = None
    /\ cReturnedTrace = None
    /\ cReturn = None
    \* no generateImageTool invocation in this run
    /\ tPc = "idle"
    /\ tBlock = [partial |-> FALSE, prompt |-> None, path |-> None, image |-> None]
    /\ tState = None
    /\ tEnv = EnvUnasked
    /\ tLocals = NoLocals
    /\ tSays = <<>>
    /\ tToolResults = <<>>
    /\ tMistakes = 0
    /\ tToolErrors = 0
    /\ tAsks = <<>>
    /\ tAdapterCalls = <<>>
    /\ tMkdirs = <<>>
    /\ tWrites = <<>>
    /\ tTracked = <<>>
    /\ tDidEditFile = FALSE
    /\ tToolUsage = 0
    /\ tHandled = <<>>
    \* no catalog query and no createMessage stream in this run
    /\ qLog = <<>>
    /\ qAll = <<>>
    /\ sPc = "idle"
    /\ sInfo = [inputPrice |-> None, outputPrice |-> None, cacheReadsPrice |-> None,
                tiers |-> None]
    /\ sChunks = <<>>
    /\ sLastUsageMetadata = None
    /\ sPendingGroundingMetadata = None
    /\ sEvents = <<>>
    /\ sThrown = None

\* From entry to the await: pick the client, validate the input image, build the
\* request and hand it to the transport -- or return the validation failure.
GenCall ==
    /\ gPc = "ready"
    /\ gClient' = ChooseClient(gApiKey, gVertex)
    /\ LET contents == BuildContents(Prompt, gInputImage)
       IN  IF ~IsSome(contents)
           THEN /\ gResult' = Some(InvalidInputResult)
                /\ gPc' = "done"
                /\ UNCHANGED <<gRequest, gCalls>>
           ELSE /\ gRequest' = Some(BuildParams(GeminiModelId, Get(contents)))
                /\ gCalls' = gCalls + 1
                /\ gPc' = "awaiting"
                /\ UNCHANGED gResult
    /\ UNCHANGED <<gApiKey, gVertex, gInputImage, gOutcome, gEscaped>>
    /\ UNCHANGED <<cvars, tvars, qvars, svars>>

\* A plausible slip: a failed result triggers a second request.
GenReturn_Retry ==
    /\ gPc = "awaiting"
    /\ \E outcome \in TransportOutcomes :
          /\ gOutcome' = Some(outcome)
          /\ gResult' = Settle(outcome).result
          /\ gEscaped' = Settle(outcome).escaped
          /\ gCalls' = IF Get(Settle(outcome).result).success THEN gCalls ELSE gCalls + 1
    /\ gPc' = "done"
    /\ UNCHANGED <<gApiKey, gVertex, gInputImage, gClient, gRequest>>
    /\ UNCHANGED <<cvars, tvars, qvars, svars>>

\* The transport answers or throws; the rest of the body (or the catch block) runs.
GenReturn ==
    /\ gPc = "awaiting"
    /\ \E outcome \in TransportOutcomes :
          /\ gOutcome' = Some(outcome)
          /\ gResult' = Settle(outcome).result
          /\ gEscaped' = Settle(outcome).escaped
    /\ gPc' = "done"
    /\ UNCHANGED <<gApiKey, gVertex, gInputImage, gClient, gRequest, gCalls>>
    /\ UNCHANGED <<cvars, tvars, qvars, svars>>

----------------------------------------------------------------------------
(* The model catalog *)

OpenRouterModelId == <<"google/gemini-2.5-flash-image-preview">>
OpenRouterFreeModelId == <<"google/gemini-2.5-flash-image-preview", ":free">>

imageGenerationProviders == <<"openrouter", "gemini">>

ModelEntry(provider, modelId, label) ==
    [provider |-> provider, modelId |-> modelId, label |-> label,
     supportsEditMode |-> TRUE, outputFormats |-> <<"png", "jpeg">>]

IMAGE_GENERATION_MODELS ==
    [provider \in {"openrouter", "gemini"} |->
        IF provider = "openrouter"
        THEN <<ModelEntry("openrouter", OpenRouterModelId,
                          "Gemini 2.5 Flash Image Preview"),
               ModelEntry("openrouter", OpenRouterFreeModelId,
                          "Gemini 2.5 Flash Image Preview (Free)")>>
        ELSE <<ModelEntry("gemini", GeminiModelId, "Gemini 2.5 Flash Image Preview")>>]

\* A plausible slip: an unknown provider gets the list of the default provider.
getImageGenerationModelsForProvider_DefaultList(provider) ==
    IF provider \in DOMAIN IMAGE_GENERATION_MODELS
    THEN IMAGE_GENERATION_MODELS[provider]
    ELSE IMAGE_GENERATION_MODELS["openrouter"]

\* IMAGE_GENERATION_MODELS[provider] || []
getImageGenerationModelsForProvider(provider) ==
    IF provider \in DOMAIN IMAGE_GENERATION_MODELS
    THEN IMAGE_GENERATION_MODELS[provider]
    ELSE <<>>

\* The own keys of the IMAGE_GENERATION_MODELS literal, in the order written.
CatalogKeys == <<"openrouter", "gemini">>

\* Object.values(o): the values of the own keys, in key order.
ObjectValues == [i \in DOMAIN CatalogKeys |-> IMAGE_GENERATION_MODELS[CatalogKeys[i]]]

\* Array.prototype.flat() on a list of lists.
RECURSIVE Flat(_)
Flat(lists) == IF lists = <<>> THEN <<>> ELSE Head(lists) \o Flat(Tail(lists))

\* Object.values(IMAGE_GENERATION_MODELS).flat()
getAllImageGenerationModels == Flat(ObjectValues)

----------------------------------------------------------------------------
(* ImageGenerationSettings: the values the panel starts with *)

\* imageGenerationProvider = "openrouter": the default of the destructured prop,
\* taken when the prop is undefined; it is the initial `provider` state.
PanelProvider(props) ==
    IF IsSome(props.imageGenerationProvider)
    THEN Get(props.imageGenerationProvider)
    ELSE "openrouter"

\* models.length > 0 ? models[0].modelId : ""
getDefaultModel(provider) ==
    IF Len(getImageGenerationModelsForProvider(provider)) > 0
    THEN getImageGenerationModelsForProvider(provider)[1].modelId
    ELSE <<>>

\* The initial `selectedModel` state: the stored model of the provider, or its
\* default; every provider but openrouter takes the Gemini branch.
getCurrentSelectedModel(provider, props) ==
    IF provider = "openrouter"
    THEN IF TruthyStr(props.openRouterImageGenerationSelectedModel)
         THEN Get(props.openRouterImageGenerationSelectedModel)
         ELSE getDefaultModel("openrouter")
    ELSE IF TruthyStr(props.geminiImageGenerationSelectedModel)
         THEN Get(props.geminiImageGenerationSelectedModel)
         ELSE getDefaultModel("gemini")

----------------------------------------------------------------------------
(* generateImageTool: helpers *)

\* imageBuffer.toString("base64"): three bytes become four characters of the
\* alphabet, a final group of one or two bytes is padded with "=".
Base64Alphabet ==
    <<"A", "B", "C", "D", "E", "F", "G", "H", "I", "J", "K", "L", "M", "N", "O", "P",
      "Q", "R", "S", "T", "U", "V", "W", "X", "Y", "Z", "a", "b", "c", "d", "e", "f",
      "g", "h", "i", "j", "k", "l", "m", "n", "o", "p", "q", "r", "s", "t", "u", "v",
      "w", "x", "y", "z", "0", "1", "2", "3", "4", "5", "6", "7", "8", "9", "+", "/">>

Base64Char(n) == Base64Alphabet[(n % 64) + 1]

RECURSIVE Base64Encode(_)
Base64Encode(bytes) ==
    IF Len(bytes) = 0 THEN <<>>
    ELSE IF Len(bytes) = 1
    THEN LET n == bytes[1] * 65536
         IN  <<Base64Char(n \div 262144), Base64Char(n \div 4096), "=", "=">>
    ELSE IF Len(bytes) = 2
    THEN LET n == bytes[1] * 65536 + bytes[2] * 256
         IN  <<Base64Char(n \div 262144), Base64Char(n \div 4096), Base64Char(n \div 64), "=">>
    ELSE LET n == bytes[1] * 65536 + bytes[2] * 256 + bytes[3]
         IN  <<Base64Char(n \div 262144), Base64Char(n \div 4096), Base64Char(n \div 64),
               Base64Char(n)>>
             \o Base64Encode(SubSeq(bytes, 4, Len(bytes)))

\* String.prototype.toLowerCase on the tokens used for file extensions.
ToLowerCase(t) ==
    CASE t = "PNG" -> "png"
      [] t = "JPG" -> "jpg"
      [] t = "JPEG" -> "jpeg"
      [] OTHER -> t

\* path.extname(p).toLowerCase().replace(".", ""): a path is <<name, ".", ext>> or
\* <<name>>; the extension is "" when the path has no dot.
ImageExtension(p) ==
    IF Len(p) >= 3 /\ p[Len(p) - 1] = "." THEN ToLowerCase(p[Len(p)]) ELSE ""

\* finalPath.match(/\.(png|jpg|jpeg)$/i)
HasImageSuffix(p) ==
    Len(p) >= 2 /\ p[Len(p) - 1] = "." /\ ToLowerCase(p[Len(p)]) \in {"png", "jpg", "jpeg"}

supportedFormats == <<"png", "jpg", "jpeg", "gif", "webp">>

\* The texts handed to pushToolResult and cline.say: formatResponse.toolError,
\* formatResponse.rooIgnoreError and sayAndCreateMissingParamError wrap their
\* argument; each is kept as its own constructor.
ToolError(text) == [kind |-> "toolError", text |-> text]
RooIgnoreError(path) == <<"rooIgnoreError: ">> \o path
MissingParamError(param) == [kind |-> "missingParamError", text |-> <<param>>]
ToolResult(text) == [kind |-> "toolResult", text |-> text]
Say(type, text) == [type |-> type, text |-> text]

ExperimentDisabledText ==
    <<"Image generation is an experimental feature that must be enabled in settings. Please enable 'Image Generation' in the Experimental Settings section.">>
OpenRouterKeyText ==
    <<"OpenRouter API key is required for image generation. Please configure it in the Image Generation experimental settings.">>
GeminiKeyText ==
    <<"Gemini API key is required for image generation. Please configure it in the Image Generation experimental settings or in the Gemini provider settings.">>
InputNotFoundText(path) == <<"Input image not found: ">> \o path
UnsupportedFormatText(ext) ==
    <<"Unsupported image format: ", ext, ". Supported formats: ",
      "png, jpg, jpeg, gif, webp">>
ReadFailedText(message) == <<"Failed to read input image: ">> \o message
UnsupportedProviderText(provider) ==
    <<"Unsupported image generation provider: ", provider>>

\* getReadablePath(cline.cwd, p): the path as shown to the user.
ReadablePath(p) == <<"getReadablePath(">> \o p \o <<")">>

----------------------------------------------------------------------------
(* generateImageTool: the inputs and collaborator answers explored *)

MaxFileBytes == 1         \* bytes of the input image file

BlockPrompts == {None, Some(Prompt)}
BlockPaths == {None, Some(<<"out", ".", "png">>), Some(<<"out">>)}
BlockImages == {None, Some(<<"in", ".", "png">>), Some(<<"in", ".", "JPG">>),
                Some(<<"in", ".", "jpeg">>), Some(<<"in", ".", "webp">>),
                Some(<<"in", ".", "gif">>),
                Some(<<"in", ".", "bmp">>)}

Blocks ==
    {[partial |-> pa, prompt |-> pr, path |-> p, image |-> i] :
        pa \in BOOLEAN, pr \in BlockPrompts, p \in BlockPaths, i \in BlockImages}

\* The settings the tool reads from the state snapshot.
SettingsStates ==
    {[experimentEnabled |-> e,
      imageGenerationProvider |-> pv,
      openRouterImageApiKey |-> ok,
      geminiImageApiKey |-> gk,
      apiConfiguration |-> ac,
      openRouterImageGenerationSelectedModel |-> om,
      geminiImageGenerationSelectedModel |-> gm] :
        e \in {TRUE},
        pv \in {None, Some("openrouter"), Some("gemini"), Some("dalle")},
        ok \in {None, Some(<<"or-key">>)},
        gk \in {None, Some(<<"gi-key">>)},
        ac \in {[apiProvider |-> "gemini", geminiApiKey |-> Some(<<"g-key">>)],
                [apiProvider |-> "gemini", geminiApiKey |-> None],
                [apiProvider |-> "anthropic", geminiApiKey |-> Some(<<"g-key">>)]},
        om \in {None, Some(OpenRouterFreeModelId), Some(GeminiModelId)},
        gm \in {None, Some(GeminiModelId), Some(<<"imagen-3">>)}}

DisabledSettings ==
    [experimentEnabled |-> FALSE,
     imageGenerationProvider |-> Some("gemini"),
     openRouterImageApiKey |-> Some(<<"or-key">>),
     geminiImageApiKey |-> Some(<<"gi-key">>),
     apiConfiguration |-> [apiProvider |-> "gemini", geminiApiKey |-> None],
     openRouterImageGenerationSelectedModel |-> None,
     geminiImageGenerationSelectedModel |-> None]

\* await provider?.getState(): undefined when the provider reference is gone.
ProviderStates == {None, Some(DisabledSettings)} \cup {Some(st) : st \in SettingsStates}

\* rooIgnoreController?.validateAccess(p): true, false, or undefined without a
\* controller.
AccessAnswers == {"allowed", "denied", "nocontroller"}

\* fs.readFile: the bytes of the file, or a thrown Error / non-Error value.
FileContents == SeqsUpTo({255}, MaxFileBytes)
ReadOutcomes ==
    {[kind |-> "bytes", bytes |-> b, message |-> <<>>] : b \in FileContents}
    \cup {[kind |-> "error", bytes |-> <<>>, message |-> <<"EACCES">>],
          [kind |-> "thrown", bytes |-> <<>>, message |-> <<>>]}

\* What the Gemini transport does during a tool invocation.
ToolTransportOutcomes ==
    {[kind |-> "error", response |-> [candidates |-> None], message |-> <<"fetch failed">>],
     [kind |-> "response", response |-> [candidates |-> Some(<<>>)], message |-> <<>>]}
    \cup {[kind |-> "response",
           response |-> [candidates |-> Some(<<Candidate(Some(<<part>>))>>)],
           message |-> <<>>] :
            part \in {TextPart(<<"here is your image">>),
                      InlinePart(Some(<<"image/", "png">>), Some(<<"A">>)),
                      InlinePart(Some(<<"image/", "jpeg">>), Some(<<"A">>)),
                      InlinePart(Some(<<"image/", "webp">>), Some(<<"A">>)),
                      InlinePart(Some(<<"image/", "png">>), None)}}

\* fs.mkdir and fs.writeFile: both succeed, or one of them throws.
FsOutcomes == {"ok", "mkdirThrows", "writeFileThrows"}

YesNo(b) == IF b THEN "yes" ELSE "no"

----------------------------------------------------------------------------
(* generateImageTool: one invocation, cut at its awaits *)

\* The part of the state no pre-flight step touches.
ToolOutputsUnchanged ==
    UNCHANGED <<tAdapterCalls, tMkdirs, tWrites, tTracked, tDidEditFile, tToolUsage,
                tHandled>>

\* cline.say("error" | "rooignore_error", ...) then pushToolResult(...) then return.
ToolFail(says, result) ==
    /\ tSays' = tSays \o says
    /\ tToolResults' = Append(tToolResults, result)
    /\ tPc' = "done"

\* consecutiveMistakeCount++, recordToolError, sayAndCreateMissingParamError.
ToolMissingParam(param) ==
    /\ tMistakes' = tMistakes + 1
    /\ tToolErrors' = tToolErrors + 1
    /\ ToolFail(<<Say("error", <<"missing parameter: ", param>>)>>, MissingParamError(param))

\* Lines 27-65: the state snapshot, the experiment switch, block.partial, the two
\* required parameters and the access check of the output path.
ToolStart ==
    /\ tPc = "start"
    /\ \E st \in ProviderStates :
          /\ tState' = st
          /\ IF ~(IsSome(st) /\ Get(st).experimentEnabled)
             THEN /\ ToolFail(<<>>, ToolError(ExperimentDisabledText))
                  /\ UNCHANGED <<tMistakes, tToolErrors, tEnv>>
             ELSE IF tBlock.partial
             THEN /\ tPc' = "done"
                  /\ UNCHANGED <<tSays, tToolResults, tMistakes, tToolErrors, tEnv>>
             ELSE IF ~TruthyStr(tBlock.prompt)
             THEN /\ ToolMissingParam("prompt")
                  /\ UNCHANGED tEnv
             ELSE IF ~TruthyStr(tBlock.path)
             THEN /\ ToolMissingParam("path")
                  /\ UNCHANGED tEnv
             ELSE \E accessAllowed \in AccessAnswers :
                    /\ tEnv' = [tEnv EXCEPT !.access = accessAllowed]
                    /\ UNCHANGED <<tMistakes, tToolErrors>>
                    /\ IF accessAllowed # "allowed"
                       THEN ToolFail(<<Say("rooignore_error", Get(tBlock.path))>>,
                                     ToolError(RooIgnoreError(Get(tBlock.path))))
                       ELSE /\ tPc' = IF TruthyStr(tBlock.image) THEN "input" ELSE "settings"
                            /\ UNCHANGED <<tSays, tToolResults>>
    /\ UNCHANGED <<tBlock, tLocals, tAsks>>
    /\ ToolOutputsUnchanged
    /\ UNCHANGED <<gvars, cvars, qvars, svars>>

\* Lines 67-125: the input image is looked up, access-checked, read and turned
\* into a data URL.
ToolReadInput ==
    /\ tPc = "input"
    /\ LET inputImagePath == Get(tBlock.image)
           shown == ReadablePath(inputImagePath)
       IN  \E inputImageExists \in BOOLEAN :
             IF ~inputImageExists
             THEN /\ tEnv' = [tEnv EXCEPT !.inputExists = "no"]
                  /\ ToolFail(<<Say("error", InputNotFoundText(shown))>>,
                              ToolError(InputNotFoundText(shown)))
                  /\ UNCHANGED tLocals
             ELSE \E inputImageAccessAllowed \in AccessAnswers :
                    IF inputImageAccessAllowed # "allowed"
                    THEN /\ tEnv' = [tEnv EXCEPT !.inputExists = "yes",
                                                 !.inputAccess = inputImageAccessAllowed]
                         /\ ToolFail(<<Say("rooignore_error", inputImagePath)>>,
                                     ToolError(RooIgnoreError(inputImagePath)))
                         /\ UNCHANGED tLocals
                    ELSE \E read \in ReadOutcomes :
                           /\ tEnv' = [tEnv EXCEPT !.inputExists = "yes",
                                                   !.inputAccess = "allowed",
                                                   !.read = read.kind,
                                                   !.readMessage = read.message]
                           /\ IF read.kind # "bytes"
                              THEN LET message == IF read.kind = "error" THEN read.message
                                                  ELSE <<"Unknown error">>
                                   IN  /\ ToolFail(<<Say("error", ReadFailedText(message))>>,
                                                   ToolError(ReadFailedText(message)))
                                       /\ UNCHANGED tLocals
                              ELSE LET imageExtension == ImageExtension(inputImagePath)
                                   IN  IF \A i \in DOMAIN supportedFormats :
                                              supportedFormats[i] # imageExtension
                                       THEN /\ ToolFail(
                                                 <<Say("error", UnsupportedFormatText(imageExtension))>>,
                                                 ToolError(UnsupportedFormatText(imageExtension)))
                                            /\ UNCHANGED tLocals
                                       ELSE LET mimeType == IF imageExtension = "jpg" THEN "jpeg"
                                                            ELSE imageExtension
                                            IN  /\ tLocals' =
                                                     [tLocals EXCEPT !.inputImageData =
                                                        Some(<<"data:", "image/", mimeType, ";base64,">>
                                                             \o Base64Encode(read.bytes))]
                                                /\ tPc' = "settings"
                                                /\ UNCHANGED <<tSays, tToolResults>>
    /\ UNCHANGED <<tBlock, tState, tMistakes, tToolErrors, tAsks>>
    /\ ToolOutputsUnchanged
    /\ UNCHANGED <<gvars, cvars, qvars, svars>>

\* state?.imageGenerationProvider || "openrouter"
SelectedProvider(st) ==
    IF IsSome(st.imageGenerationProvider) THEN Get(st.imageGenerationProvider)
    ELSE "openrouter"

\* models[0]?.modelId ?? fallback
FirstModelId(provider, fallback) ==
    IF Len(getImageGenerationModelsForProvider(provider)) > 0
    THEN getImageGenerationModelsForProvider(provider)[1].modelId
    ELSE fallback

\* A plausible slip: without a stored model of its own the provider gets the
\* model stored for the other one.
SelectedModel_AnyStored(st, provider) ==
    LET own == IF provider = "openrouter" THEN st.openRouterImageGenerationSelectedModel
               ELSE st.geminiImageGenerationSelectedModel
        other == IF provider = "openrouter" THEN st.geminiImageGenerationSelectedModel
                 ELSE st.openRouterImageGenerationSelectedModel
    IN  IF TruthyStr(own) THEN Get(own)
        ELSE IF TruthyStr(other) THEN Get(other)
        ELSE FirstModelId(provider, GeminiModelId)

\* The model id handed to the adapter (lines 151-155 and 174-177).
SelectedModel(st, provider) ==
    IF provider = "openrouter"
    THEN IF TruthyStr(st.openRouterImageGenerationSelectedModel)
         THEN Get(st.openRouterImageGenerationSelectedModel)
         ELSE FirstModelId("openrouter", OpenRouterModelId)
    ELSE IF TruthyStr(st.geminiImageGenerationSelectedModel)
         THEN Get(st.geminiImageGenerationSelectedModel)
         ELSE FirstModelId("gemini", GeminiModelId)

\* A plausible slip: the provider-settings key is used whatever the main provider is.
SelectedApiKey_AnyProviderKey(st, provider) ==
    IF provider = "openrouter"
    THEN st.openRouterImageApiKey
    ELSE IF TruthyStr(st.geminiImageApiKey)
         THEN st.geminiImageApiKey
         ELSE st.apiConfiguration.geminiApiKey

\* The credential of the selected provider (lines 138 and 159-161).
SelectedApiKey(st, provider) ==
    IF provider = "openrouter"
    THEN st.openRouterImageApiKey
    ELSE IF TruthyStr(st.geminiImageApiKey)
         THEN st.geminiImageApiKey
         ELSE IF st.apiConfiguration.apiProvider = "gemini"
              THEN st.apiConfiguration.geminiApiKey
              ELSE None

\* The JSON text handed to askApproval.
ApprovalMessage(block, isWriteProtected) ==
    [tool |-> "generateImage", content |-> Get(block.prompt),
     path |-> ReadablePath(Get(block.path)),
     inputImage |-> IF TruthyStr(block.image)
                    THEN Some(ReadablePath(Get(block.image))) ELSE None,
     isProtected |-> isWriteProtected]

\* Lines 127-207: write protection, provider, credential and model are resolved;
\* then the mistake counter is reset and the user is asked.
ToolResolveAndAsk ==
    /\ tPc = "settings"
    /\ \E isWriteProtected \in BOOLEAN :
          LET st == Get(tState)
              selectedProvider == SelectedProvider(st)
              apiKey == SelectedApiKey(st, selectedProvider)
              keyText == IF selectedProvider = "openrouter" THEN OpenRouterKeyText
                         ELSE GeminiKeyText
          IN  /\ tEnv' = [tEnv EXCEPT !.writeProtected = YesNo(isWriteProtected)]
              /\ IF selectedProvider \notin {"openrouter", "gemini"}
                 THEN /\ tLocals' = [tLocals EXCEPT !.selectedProvider = selectedProvider]
                      /\ ToolFail(<<Say("error", UnsupportedProviderText(selectedProvider))>>,
                                  ToolError(UnsupportedProviderText(selectedProvider)))
                      /\ UNCHANGED <<tMistakes, tAsks>>
                 ELSE IF ~TruthyStr(apiKey)
                 THEN /\ tLocals' = [tLocals EXCEPT !.selectedProvider = selectedProvider,
                                                    !.apiKey = apiKey]
                      /\ ToolFail(<<Say("error", keyText)>>, ToolError(keyText))
                      /\ UNCHANGED <<tMistakes, tAsks>>
                 ELSE /\ tLocals' = [tLocals EXCEPT
                                        !.selectedProvider = selectedProvider,
                                        !.apiKey = apiKey,
                                        !.selectedModel = Some(SelectedModel(st, selectedProvider))]
                      /\ tMistakes' = 0
                      /\ tAsks' = Append(tAsks, ApprovalMessage(tBlock, isWriteProtected))
                      /\ tPc' = "approval"
                      /\ UNCHANGED <<tSays, tToolResults>>
    /\ UNCHANGED <<tBlock, tState, tToolErrors>>
    /\ ToolOutputsUnchanged
    /\ UNCHANGED <<gvars, cvars, qvars, svars>>

\* OpenRouterHandler.generateImage, from its contract (the shared capability of
\* the two adapters): a rejected input image fails at once, otherwise a failure
\* with an error text or a success carrying an image data URL.
OpenRouterResults(inputImage) ==
    IF TruthyStr(inputImage) /\ ~IsSome(MatchImageDataUrl(Get(inputImage)))
    THEN {InvalidInputResult}
    ELSE {Failure(<<"Failed to generate image: ", "fetch failed">>),
          Failure(<<"No image data found in the response">>)}
         \cup {Success(ImageDataOf(m, Some(<<"A">>)), ImageFormatOf(m)) : m \in ImageMimeTypes}

\* GeminiHandler.generateImage as the tool sees it: the validation failure, or
\* whatever the invocation makes of the transport's behaviour.
GeminiResults(inputImage) ==
    IF ~IsSome(BuildContents(Prompt, inputImage))
    THEN {InvalidInputResult}
    ELSE {Get(Settle(o).result) : o \in {x \in ToolTransportOutcomes : ~Settle(x).escaped}}

\* result.imageData.match(/^data:image\/(png|jpeg|jpg);base64,(.+)$/)
MatchReceivedImage(imageData) == MatchImageDataUrl(imageData)

\* The path written: relPath, with the image format appended as an extension
\* unless it already ends in .png, .jpg or .jpeg.
FinalPath(relPath, imageFormat) ==
    IF HasImageSuffix(relPath) THEN relPath
    ELSE relPath \o <<".", IF imageFormat = "jpeg" THEN "jpg" ELSE imageFormat>>

\* A plausible slip: the answer of askApproval is recorded but not tested.
ToolApproval_AnswerIgnored ==
    /\ tPc = "approval"
    /\ \E didApprove \in BOOLEAN :
          tEnv' = [tEnv EXCEPT !.approved = YesNo(didApprove)]
    /\ tAdapterCalls' =
          Append(tAdapterCalls,
                 [provider |-> tLocals.selectedProvider,
                  prompt |-> Get(tBlock.prompt),
                  model |-> Get(tLocals.selectedModel),
                  apiKey |-> tLocals.apiKey,
                  inputImage |-> tLocals.inputImageData])
    /\ tPc' = "generating"
    /\ UNCHANGED <<tBlock, tState, tLocals, tSays, tToolResults, tMistakes, tToolErrors,
                   tAsks, tMkdirs, tWrites, tTracked, tDidEditFile, tToolUsage, tHandled>>
    /\ UNCHANGED <<gvars, cvars, qvars, svars>>

\* Lines 207-234: the user's answer; on approval the adapter of the selected
\* provider is called.
ToolApproval ==
    /\ tPc = "approval"
    /\ \E didApprove \in BOOLEAN :
          /\ tEnv' = [tEnv EXCEPT !.approved = YesNo(didApprove)]
          /\ IF ~didApprove
             THEN /\ tPc' = "done"
                  /\ UNCHANGED tAdapterCalls
             ELSE /\ tAdapterCalls' =
                        Append(tAdapterCalls,
                               [provider |-> tLocals.selectedProvider,
                                prompt |-> Get(tBlock.prompt),
                                model |-> Get(tLocals.selectedModel),
                                apiKey |-> tLocals.apiKey,
                                inputImage |-> tLocals.inputImageData])
                  /\ tPc' = "generating"
    /\ UNCHANGED <<tBlock, tState, tLocals, tSays, tToolResults, tMistakes, tToolErrors,
                   tAsks, tMkdirs, tWrites, tTracked, tDidEditFile, tToolUsage, tHandled>>
    /\ UNCHANGED <<gvars, cvars, qvars, svars>>

\* Lines 236-303 and the catch at 305: the adapter's result is reported as an
\* error, or decoded, written to the output path and announced.
ToolFinish ==
    /\ tPc = "generating"
    /\ \E result \in (IF tLocals.selectedProvider = "openrouter"
                         THEN OpenRouterResults(tLocals.inputImageData)
                         ELSE GeminiResults(tLocals.inputImageData)) :
            /\ tLocals' = [tLocals EXCEPT !.result = Some(result)]
            /\ IF ~result.success
               THEN LET text == IF TruthyStr(result.error) THEN Get(result.error)
                                ELSE <<"Failed to generate image">>
                    IN  /\ ToolFail(<<Say("error", text)>>, ToolError(text))
                        /\ UNCHANGED <<tEnv, tMkdirs, tWrites, tTracked, tDidEditFile,
                                       tToolUsage, tHandled>>
               ELSE IF ~TruthyStr(result.imageData)
               THEN /\ ToolFail(<<Say("error", <<"No image data received">>)>>,
                                ToolError(<<"No image data received">>))
                    /\ UNCHANGED <<tEnv, tMkdirs, tWrites, tTracked, tDidEditFile,
                                   tToolUsage, tHandled>>
               ELSE IF ~IsSome(MatchReceivedImage(Get(result.imageData)))
               THEN /\ ToolFail(<<Say("error", <<"Invalid image format received">>)>>,
                                ToolError(<<"Invalid image format received">>))
                    /\ UNCHANGED <<tEnv, tMkdirs, tWrites, tTracked, tDidEditFile,
                                   tToolUsage, tHandled>>
               ELSE LET base64Match == Get(MatchReceivedImage(Get(result.imageData)))
                        finalPath == FinalPath(Get(tBlock.path), base64Match.format)
                    IN  \E fs \in FsOutcomes :
                          /\ tEnv' = [tEnv EXCEPT !.fs = fs]
                          /\ tMkdirs' = Append(tMkdirs, finalPath)
                          /\ IF fs = "ok"
                             THEN /\ tWrites' = Append(tWrites,
                                                       [path |-> finalPath,
                                                        base64 |-> base64Match.base64])
                                  /\ tTracked' = Append(tTracked, finalPath)
                                  /\ tDidEditFile' = TRUE
                                  /\ tToolUsage' = tToolUsage + 1
                                  /\ tSays' = Append(tSays, Say("image", finalPath))
                                  /\ tToolResults' =
                                        Append(tToolResults, ToolResult(ReadablePath(finalPath)))
                                  /\ UNCHANGED tHandled
                             ELSE /\ tHandled' = Append(tHandled, "generating image")
                                  /\ UNCHANGED <<tWrites, tTracked, tDidEditFile, tToolUsage,
                                                 tSays, tToolResults>>
                          /\ tPc' = "done"
    /\ UNCHANGED <<tBlock, tState, tMistakes, tToolErrors, tAsks, tAdapterCalls>>
    /\ UNCHANGED <<gvars, cvars, qvars, svars>>

ToolInit ==
    /\ tPc = "start"
    /\ tBlock \in Blocks
    /\ tState = None
    /\ tEnv = EnvUnasked
    /\ tLocals = NoLocals
    /\ tSays = <<>>
    /\ tToolResults = <<>>
    /\ tMistakes \in {0, 1}
    /\ tToolErrors = 0
    /\ tAsks = <<>>
    /\ tAdapterCalls = <<>>
    /\ tMkdirs = <<>>
    /\ tWrites = <<>>
    /\ tTracked = <<>>
    /\ tDidEditFile = FALSE
    /\ tToolUsage = 0
    /\ tHandled = <<>>
    \* no generateImage invocation of its own and no calculateCost call in this run
    /\ gPc = "idle"
    /\ gApiKey = None
    /\ gVertex = FALSE
    /\ gInputImage = None
    /\ gClient = "none"
    /\ gRequest = None
    /\ gCalls = 0
    /\ gOutcome = None
    /\ gResult = None
    /\ gEscaped = FALSE
    /\ cPc = "idle"
    /\ cInfo = NoModelInfo
    /\ cInputTokens = 0
    /\ cOutputTokens = 0
    /\ cCacheReadTokens = None
    /\ cTrace = None
    /\ cReturnedTrace = None
    /\ cReturn = None
    \* no catalog query and no createMessage stream in this run
    /\ qLog = <<>>
    /\ qAll = <<>>
    /\ sPc = "idle"
    /\ sInfo = [inputPrice |-> None, outputPrice |-> None, cacheReadsPrice |-> None,
                tiers |-> None]
    /\ sChunks = <<>>
    /\ sLastUsageMetadata = None
    /\ sPendingGroundingMetadata = None
    /\ sEvents = <<>>
    /\ sThrown = None

----------------------------------------------------------------------------
(* GeminiHandler.createMessage: the stream loop *)

\* The events of the ApiStream; fields an event type does not have are None.
TextEvent(type, text) ==
    [type |-> type, text |-> Some(text), sources |-> None, usage |-> None]
GroundingEvent(sources) ==
    [type |-> "grounding", text |-> None, sources |-> Some(sources), usage |-> None]
UsageEvent(usage) ==
    [type |-> "usage", text |-> None, sources |-> None, usage |-> Some(usage)]

\* A Part of a streamed chunk: thought?, text?.
StreamPart(thought, text) == [thought |-> thought, text |-> text]

\* The inner loop over candidate.content.parts: a thought with text yields a
\* reasoning event, any other part with text a text event.
RECURSIVE PartEvents(_)
PartEvents(parts) ==
    IF parts = <<>> THEN <<>>
    ELSE (IF TruthyStr(Head(parts).text)
          THEN <<TextEvent(IF Head(parts).thought THEN "reasoning" ELSE "text",
                           Get(Head(parts).text))>>
          ELSE <<>>)
         \o PartEvents(Tail(parts))

\* chunk.candidates && chunk.candidates.length > 0
HasStreamCandidates(chunk) == IsSome(chunk.candidates) /\ Len(Get(chunk.candidates)) > 0

\* The events one chunk yields.
ChunkEvents(chunk) ==
    IF HasStreamCandidates(chunk)
    THEN LET candidate == Get(chunk.candidates)[1]
         IN  IF IsSome(candidate.content) /\ IsSome(Get(candidate.content).parts)
             THEN PartEvents(Get(Get(candidate.content).parts))
             ELSE <<>>
    ELSE IF TruthyStr(chunk.text)
    THEN <<TextEvent("text", Get(chunk.text))>>
    ELSE <<>>

\* pendingGroundingMetadata after a chunk.
NextGroundingMetadata(pending, chunk) ==
    IF HasStreamCandidates(chunk) /\ IsSome(Get(chunk.candidates)[1].groundingMetadata)
    THEN Get(chunk.candidates)[1].groundingMetadata
    ELSE pending

\* A plausible slip: the first usage metadata is kept instead of the last.
NextUsageMetadata_First(last, chunk) ==
    IF IsSome(last) THEN last ELSE chunk.usageMetadata

\* lastUsageMetadata after a chunk.
NextUsageMetadata(last, chunk) ==
    IF IsSome(chunk.usageMetadata) THEN chunk.usageMetadata ELSE last

\* chunks.map(...).filter(source => source !== null)
RECURSIVE MapSources(_)
MapSources(chunks) ==
    IF chunks = <<>> THEN <<>>
    ELSE LET web == Head(chunks).web
             uri == IF IsSome(web) THEN Get(web).uri ELSE None
             title == IF IsSome(web) /\ TruthyStr(Get(web).title) THEN Get(Get(web).title)
                      ELSE IF TruthyStr(uri) THEN Get(uri)
                      ELSE <<"Unknown Source">>
         IN  (IF TruthyStr(uri) THEN <<[title |-> title, url |-> Get(uri)]>> ELSE <<>>)
             \o MapSources(Tail(chunks))

extractGroundingSources(groundingMetadata) ==
    IF ~IsSome(groundingMetadata) \/ ~IsSome(Get(groundingMetadata).groundingChunks)
    THEN <<>>
    ELSE MapSources(Get(Get(groundingMetadata).groundingChunks))

\* The usage event built from lastUsageMetadata.
UsageOf(info, usageMetadata) ==
    LET inputTokens == Nullish(usageMetadata.promptTokenCount, 0)
        outputTokens == Nullish(usageMetadata.candidatesTokenCount, 0)
        cacheReadTokens == usageMetadata.cachedContentTokenCount
    IN  [inputTokens |-> inputTokens,
         outputTokens |-> outputTokens,
         cacheReadTokens |-> cacheReadTokens,
         reasoningTokens |-> usageMetadata.thoughtsTokenCount,
         totalCost |-> CalculateCost(info, inputTokens, outputTokens, cacheReadTokens)]

\* What follows the loop: the grounding event, then the usage event.
FinalEvents(info, pendingGroundingMetadata, lastUsageMetadata) ==
    (IF IsSome(pendingGroundingMetadata)
        /\ Len(extractGroundingSources(pendingGroundingMetadata)) > 0
     THEN <<GroundingEvent(extractGroundingSources(pendingGroundingMetadata))>>
     ELSE <<>>)
    \o (IF IsSome(lastUsageMetadata)
        THEN <<UsageEvent(UsageOf(info, Get(lastUsageMetadata)))>>
        ELSE <<>>)

\* The catch block: an Error is rethrown under the translated message, anything
\* else as it is.
StreamError(thrown) ==
    IF thrown.kind = "error"
    THEN [kind |-> "error",
          message |-> <<"common:errors.gemini.generate_stream: ">> \o thrown.message]
    ELSE thrown

\* The chunks, grounding metadata and usage metadata explored.
MaxChunks == 3            \* chunks of one stream

WebChunk(uri, title) == [web |-> Some([uri |-> uri, title |-> title])]
GroundingMetadata(groundingChunks) == [groundingChunks |-> groundingChunks]

GroundingWithTwoSources ==
    GroundingMetadata(Some(<<WebChunk(Some(<<"https://a">>), None),
                             [web |-> None],
                             WebChunk(Some(<<"https://b">>), Some(<<"B">>))>>))
GroundingWithoutUri ==
    GroundingMetadata(Some(<<WebChunk(None, Some(<<"no link">>)), WebChunk(Some(<<>>), None)>>))
GroundingWithoutChunks == GroundingMetadata(None)

UsageMetadata(prompt, candidates, cached, thoughts) ==
    [promptTokenCount |-> prompt, candidatesTokenCount |-> candidates,
     cachedContentTokenCount |-> cached, thoughtsTokenCount |-> thoughts]

StreamCandidate(groundingMetadata, content) ==
    [groundingMetadata |-> groundingMetadata, content |-> content]
StreamContent(parts) == Some([parts |-> parts])
StreamChunkOf(candidates, text, usageMetadata) ==
    [candidates |-> candidates, text |-> text, usageMetadata |-> usageMetadata]

StreamChunks ==
    {\* a text part
     StreamChunkOf(Some(<<StreamCandidate(None, StreamContent(Some(<<
        StreamPart(FALSE, Some(<<"a">>))>>)))>>), None, None),
     \* a thought and a text part, with usage
     StreamChunkOf(Some(<<StreamCandidate(None, StreamContent(Some(<<
        StreamPart(TRUE, Some(<<"t">>)), StreamPart(FALSE, Some(<<"b">>))>>)))>>), None,
        Some(UsageMetadata(Some(1000000), Some(500000), Some(500000), Some(7)))),
     \* grounding with sources, parts without text
     StreamChunkOf(Some(<<StreamCandidate(Some(GroundingWithTwoSources), StreamContent(Some(<<
        StreamPart(FALSE, Some(<<>>)), StreamPart(TRUE, None)>>)))>>), None, None),
     \* grounding without any uri, no content, usage with every count missing
     StreamChunkOf(Some(<<StreamCandidate(Some(GroundingWithoutUri), None)>>), None,
        Some(UsageMetadata(None, None, None, None))),
     \* grounding without chunks, content without parts
     StreamChunkOf(Some(<<StreamCandidate(Some(GroundingWithoutChunks), StreamContent(None))>>),
        Some(<<"not used">>), None),
     \* no candidates: the text property
     StreamChunkOf(None, Some(<<"c">>), None),
     \* an empty candidate list: the text property, with usage
     StreamChunkOf(Some(<<>>), Some(<<"d">>),
        Some(UsageMetadata(Some(2000000), Some(0), None, None))),
     \* usage only
     StreamChunkOf(None, None, Some(UsageMetadata(Some(500000), Some(500000), Some(0), None)))}

\* getModel().info: a priced model and one without prices.
StreamInfos ==
    {NoModelInfo,
     [inputPrice |-> Some(2 * PriceScale), outputPrice |-> Some(10 * PriceScale),
      cacheReadsPrice |-> Some(1 * PriceScale), tiers |-> None]}

\* What generateContentStream or the iteration can throw.
StreamThrows ==
    {[kind |-> "error", message |-> <<"fetch failed">>],
     [kind |-> "thrown", message |-> <<>>]}

StreamInit ==
    /\ sPc = "ready"
    /\ sInfo \in StreamInfos
    /\ sChunks = <<>>
    /\ sLastUsageMetadata = None
    /\ sPendingGroundingMetadata = None
    /\ sEvents = <<>>
    /\ sThrown = None
    \* nothing else runs
    /\ qLog = <<>>
    /\ qAll = <<>>
    /\ gPc = "idle"
    /\ gApiKey = None
    /\ gVertex = FALSE
    /\ gInputImage = None
    /\ gClient = "none"
    /\ gRequest = None
    /\ gCalls = 0
    /\ gOutcome = None
    /\ gResult = None
    /\ gEscaped = FALSE
    /\ cPc = "idle"
    /\ cInfo = NoModelInfo
    /\ cInputTokens = 0
    /\ cOutputTokens = 0
    /\ cCacheReadTokens = None
    /\ cTrace = None
    /\ cReturnedTrace = None
    /\ cReturn = None
    /\ tPc = "idle"
    /\ tBlock = [partial |-> FALSE, prompt |-> None, path |-> None, image |-> None]
    /\ tState = None
    /\ tEnv = EnvUnasked
    /\ tLocals = NoLocals
    /\ tSays = <<>>
    /\ tToolResults = <<>>
    /\ tMistakes = 0
    /\ tToolErrors = 0
    /\ tAsks = <<>>
    /\ tAdapterCalls = <<>>
    /\ tMkdirs = <<>>
    /\ tWrites = <<>>
    /\ tTracked = <<>>
    /\ tDidEditFile = FALSE
    /\ tToolUsage = 0
    /\ tHandled = <<>>

\* await this.client.models.generateContentStream(params) returns the stream.
StreamOpen ==
    /\ sPc = "ready"
    /\ sPc' = "streaming"
    /\ UNCHANGED <<sInfo, sChunks, sLastUsageMetadata, sPendingGroundingMetadata,
                   sEvents, sThrown>>
    /\ UNCHANGED <<gvars, cvars, tvars, qvars>>

\* One turn of the for-await loop: the chunk's events are yielded and the two
\* locals updated.
StreamChunk ==
    /\ sPc = "streaming"
    /\ Len(sChunks) < MaxChunks
    /\ \E chunk \in StreamChunks :
          /\ sChunks' = Append(sChunks, chunk)
          /\ sEvents' = sEvents \o ChunkEvents(chunk)
          /\ sPendingGroundingMetadata' =
                NextGroundingMetadata(sPendingGroundingMetadata, chunk)
          /\ sLastUsageMetadata' = NextUsageMetadata(sLastUsageMetadata, chunk)
    /\ UNCHANGED <<sPc, sInfo, sThrown>>
    /\ UNCHANGED <<gvars, cvars, tvars, qvars>>

\* The stream is exhausted: the grounding and usage events are yielded and the
\* generator returns.
StreamEnd ==
    /\ sPc = "streaming"
    /\ sEvents' = sEvents \o FinalEvents(sInfo, sPendingGroundingMetadata, sLastUsageMetadata)
    /\ sPc' = "done"
    /\ UNCHANGED <<sInfo, sChunks, sLastUsageMetadata, sPendingGroundingMetadata, sThrown>>
    /\ UNCHANGED <<gvars, cvars, tvars, qvars>>

\* The request or the iteration throws: the catch block rethrows.
StreamThrow ==
    /\ sPc \in {"ready", "streaming"}
    /\ \E thrown \in StreamThrows : sThrown' = Some(StreamError(thrown))
    /\ sPc' = "failed"
    /\ UNCHANGED <<sInfo, sChunks, sLastUsageMetadata, sPendingGroundingMetadata, sEvents>>
    /\ UNCHANGED <<gvars, cvars, tvars, qvars>>

----------------------------------------------------------------------------
(* The model catalog queried by its callers *)

MaxQueries == 3           \* catalog queries of each kind in one run

\* Provider names callers ask for: the two of the catalog and names it lacks.
QueryProviders == {"openrouter", "gemini", "dalle", "openai", "OpenRouter", ""}

CatalogInit ==
    /\ qLog = <<>>
    /\ qAll = <<>>
    \* nothing else runs
    /\ gPc = "idle"
    /\ gApiKey = None
    /\ gVertex = FALSE
    /\ gInputImage = None
    /\ gClient = "none"
    /\ gRequest = None
    /\ gCalls = 0
    /\ gOutcome = None
    /\ gResult = None
    /\ gEscaped = FALSE
    /\ cPc = "idle"
    /\ cInfo = NoModelInfo
    /\ cInputTokens = 0
    /\ cOutputTokens = 0
    /\ cCacheReadTokens = None
    /\ cTrace = None
    /\ cReturnedTrace = None
    /\ cReturn = None
    /\ tPc = "idle"
    /\ tBlock = [partial |-> FALSE, prompt |-> None, path |-> None, image |-> None]
    /\ tState = None
    /\ tEnv = EnvUnasked
    /\ tLocals = NoLocals
    /\ tSays = <<>>
    /\ tToolResults = <<>>
    /\ tMistakes = 0
    /\ tToolErrors = 0
    /\ tAsks = <<>>
    /\ tAdapterCalls = <<>>
    /\ tMkdirs = <<>>
    /\ tWrites = <<>>
    /\ tTracked = <<>>
    /\ tDidEditFile = FALSE
    /\ tToolUsage = 0
    /\ tHandled = <<>>
    /\ sPc = "idle"
    /\ sInfo = [inputPrice |-> None, outputPrice |-> None, cacheReadsPrice |-> None,
                tiers |-> None]
    /\ sChunks = <<>>
    /\ sLastUsageMetadata = None
    /\ sPendingGroundingMetadata = None
    /\ sEvents = <<>>
    /\ sThrown = None

\* One call of getImageGenerationModelsForProvider.
CatalogQuery ==
    /\ Len(qLog) < MaxQueries
    /\ \E provider \in QueryProviders :
          qLog' = Append(qLog, [provider |-> provider,
                                result |-> getImageGenerationModelsForProvider(provider)])
    /\ UNCHANGED qAll
    /\ UNCHANGED <<gvars, cvars, tvars, svars>>

\* One call of getAllImageGenerationModels.
CatalogAll ==
    /\ Len(qAll) < MaxQueries
    /\ qAll' = Append(qAll, getAllImageGenerationModels)
    /\ UNCHANGED qLog
    /\ UNCHANGED <<gvars, cvars, tvars, svars>>

----------------------------------------------------------------------------
(* Specifications: one per operation, the other operations idle *)

vars == <<gvars, cvars, tvars, qvars, svars>>

GenNext == GenCall \/ GenReturn

SpecGen == GenInit /\ [][GenNext]_vars

CostNext == CostCall

SpecCost == CostInit /\ [][CostNext]_vars

StreamNext == StreamOpen \/ StreamChunk \/ StreamEnd \/ StreamThrow

SpecStream == StreamInit /\ [][StreamNext]_vars

CatalogNext == CatalogQuery \/ CatalogAll

SpecCatalog == CatalogInit /\ [][CatalogNext]_vars

ToolNext == ToolStart \/ ToolReadInput \/ ToolResolveAndAsk \/ ToolApproval \/ ToolFinish

SpecTool == ToolInit /\ [][ToolNext]_vars

----------------------------------------------------------------------------
(* Properties of GeminiHandler.generateImage, checked under SpecGen *)

\* The pattern data:image/(png|jpeg|jpg);base64,<non-empty payload>, read as the
\* regular expression reads it (a payload is one or more characters of one line).
IsImageDataUrl(s) ==
    /\ Len(s) >= 5
    /\ SubSeq(s, 1, 2) = <<"data:", "image/">>
    /\ s[3] = "png" \/ s[3] = "jpeg" \/ s[3] = "jpg"
    /\ s[4] = ";base64,"
    /\ "\n" \notin {s[i] : i \in 5..Len(s)}

GenDone == gPc = "done"
GenResult == Get(gResult)

\* C1 as stated: EVERY supplied inputImage that does not match the pattern is
\* rejected with the invalid-format error and the transport is never called.
\* The empty string is a supplied value that does not match.
C1_AnyMismatchRejected ==
    (IsSome(gInputImage) /\ ~IsImageDataUrl(Get(gInputImage)))
        => /\ gCalls = 0
           /\ gPc # "awaiting"
           /\ GenDone => gResult = Some(InvalidInputResult)

\* C1 (amended): a NON-EMPTY inputImage that does not match the pattern makes
\* generateImage return {success:false, error:'Invalid input image format.
\* Expected base64 data URL.'}, and generateContent is called zero times in that
\* invocation.
C1_NonEmptyMismatchRejected ==
    (TruthyStr(gInputImage) /\ ~IsImageDataUrl(Get(gInputImage)))
        => /\ gCalls = 0
           /\ gPc # "awaiting"
           /\ gRequest = None
           /\ GenDone => gResult = Some(InvalidInputResult)

C1_Witness ==
    /\ GenDone
    /\ gInputImage = Some(<<"data:", "image/", "gif", ";base64,", "A">>)
    /\ gResult = Some(InvalidInputResult)
    /\ gCalls = 0

\* C2: no exception leaves generateImage: whatever the input and whatever the
\* transport does, a finished invocation has returned an ImageGenerationResult,
\* and a transport Error with message m gives {success:false,
\* error:'Failed to generate image: ' + m}.
C2_NeverThrows ==
    /\ ~gEscaped
    /\ GenDone => /\ IsSome(gResult)
                  /\ GenResult.success \in BOOLEAN
    /\ (GenDone /\ IsSome(gOutcome) /\ Get(gOutcome).kind = "error")
          => /\ ~GenResult.success
             /\ GenResult.error =
                  Some(<<"Failed to generate image: ">> \o Get(gOutcome).message)
             /\ GenResult.imageData = None

C2_Witness ==
    /\ GenDone
    /\ IsSome(gOutcome)
    /\ Get(gOutcome).kind = "error"
    /\ Get(gOutcome).message = <<"fetch failed">>
    /\ GenResult.error = Some(<<"Failed to generate image: ", "fetch failed">>)

\* A data URL data:<mime>;base64,<payload> with a real payload: a non-empty mime,
\* and a non-empty payload that is not the printed form of a missing value.
WellFormedDataUrl(s) ==
    \E k \in 3..Len(s) :
        /\ s[1] = "data:"
        /\ s[k] = ";base64,"
        /\ \A j \in 2..(k - 1) : s[j] # ";base64,"
        /\ k < Len(s)
        /\ SubSeq(s, k + 1, Len(s)) # <<"undefined">>

\* C3: every returned result populates exactly one of {imageData, error}:
\* success means imageData is a well-formed data URL and error is absent; failure
\* means error is a non-empty string and imageData is absent.
C3_ExactlyOneOfImageOrError ==
    GenDone =>
        /\ GenResult.success =>
              /\ IsSome(GenResult.imageData)
              /\ WellFormedDataUrl(Get(GenResult.imageData))
              /\ ~IsSome(GenResult.error)
        /\ ~GenResult.success =>
              /\ TruthyStr(GenResult.error)
              /\ ~IsSome(GenResult.imageData)

\* The response a finished invocation parsed, when the transport resolved.
GenResponded == GenDone /\ IsSome(gOutcome) /\ Get(gOutcome).kind = "response"
GenResponse == Get(gOutcome).response

HasCandidates(r) == IsSome(r.candidates) /\ Get(r.candidates) # <<>>
FirstCandidate(r) == Head(Get(r.candidates))
HasParts(c) == IsSome(c.content) /\ IsSome(Get(c.content).parts)
PartsOf(c) == Get(Get(c.content).parts)

\* A part carrying inline data whose MIME type is prefixed image/.
CarriesImage(part) ==
    /\ part.inlineData # None
    /\ Get(part.inlineData).mimeType # None
    /\ Head(Get(Get(part.inlineData).mimeType)) = "image/"

GenericPrefix == <<"Failed to generate image: ">>

\* C4: the three response-shape failures each return {success:false} with their
\* own message -- no (or zero) candidates: 'No candidates returned in the
\* response'; a first candidate without content or without content parts: 'No
\* content parts in the response'; parts none of which carries inline image data:
\* 'No image data found in the response' -- and none goes through the generic
\* 'Failed to generate image: ...' wrapper.
C4_ShapeFailuresDistinct ==
    GenResponded =>
        LET r == GenResponse
            shape == IF ~HasCandidates(r) THEN 1
                     ELSE IF ~HasParts(FirstCandidate(r)) THEN 2
                     ELSE IF \A i \in DOMAIN PartsOf(FirstCandidate(r)) :
                                ~CarriesImage(PartsOf(FirstCandidate(r))[i]) THEN 3
                     ELSE 0
            message == <<<<"No candidates returned in the response">>,
                         <<"No content parts in the response">>,
                         <<"No image data found in the response">>>>
        IN  /\ shape # 0 =>
                 /\ GenResult = Failure(message[shape])
                 /\ ~StartsWith(Get(GenResult.error), GenericPrefix)
                 /\ \A other \in (1..3) \ {shape} :
                        GenResult.error # Some(message[other])
            /\ shape = 0 => GenResult.error = None

C4_Witness ==
    /\ GenResponded
    /\ HasCandidates(GenResponse)
    /\ HasParts(FirstCandidate(GenResponse))
    /\ Len(PartsOf(FirstCandidate(GenResponse))) = 2
    /\ \A i \in 1..2 : ~CarriesImage(PartsOf(FirstCandidate(GenResponse))[i])
    /\ GenResult = Failure(<<"No image data found in the response">>)

\* The payload of a data URL: what follows its first ";base64," (None without one).
PayloadOf(s) ==
    IF IndexOf(s, ";base64,") = 0 THEN None
    ELSE Some(SubSeq(s, IndexOf(s, ";base64,") + 1, Len(s)))

\* C5: when the first candidate has content parts, the first part (in list
\* order) carrying inline data with an image/ MIME type is the one returned,
\* whatever later parts and other candidates hold: {success:true,
\* imageData:'data:<mime>;base64,<payload>', imageFormat:<subtype, jpeg as jpg>}
\* with <mime> and <payload> exactly those of that part.
C5_FirstImagePartReturned ==
    (GenResponded /\ HasCandidates(GenResponse) /\ HasParts(FirstCandidate(GenResponse)))
    => LET parts == PartsOf(FirstCandidate(GenResponse))
       IN  \A i \in DOMAIN parts :
              (CarriesImage(parts[i]) /\ \A j \in 1..(i - 1) : ~CarriesImage(parts[j]))
              => LET mime == Get(Get(parts[i].inlineData).mimeType)
                     subtype == Tail(mime)
                 IN  /\ GenResult.success
                     /\ IsSome(GenResult.imageData)
                     /\ StartsWith(Get(GenResult.imageData),
                                   <<"data:">> \o mime \o <<";base64,">>)
                     /\ PayloadOf(Get(GenResult.imageData)) = Get(parts[i].inlineData).data
                     /\ GenResult.imageFormat =
                          Some(IF subtype = <<"jpeg">> THEN <<"jpg">> ELSE subtype)

\* The same statement for selected parts that do have a data field (not a claim
\* of its own: it shows where C5 fails and where it does not).
C5_HoldsWhenDataPresent ==
    (GenResponded /\ HasCandidates(GenResponse) /\ HasParts(FirstCandidate(GenResponse)))
    => LET parts == PartsOf(FirstCandidate(GenResponse))
       IN  \A i \in DOMAIN parts :
              (/\ CarriesImage(parts[i])
               /\ \A j \in 1..(i - 1) : ~CarriesImage(parts[j])
               /\ IsSome(Get(parts[i].inlineData).data))
              => LET mime == Get(Get(parts[i].inlineData).mimeType)
                     subtype == Tail(mime)
                 IN  /\ GenResult.success
                     /\ GenResult.imageData =
                          Some(<<"data:">> \o mime \o <<";base64,">>
                               \o Get(Get(parts[i].inlineData).data))
                     /\ GenResult.imageFormat =
                          Some(IF subtype = <<"jpeg">> THEN <<"jpg">> ELSE subtype)

\* C6: an invocation whose input image is absent or valid issues exactly one
\* generateContent request, and no invocation ever issues more than one (no
\* retry after a failed, empty or image-less response).
C6_ExactlyOneRequest ==
    /\ gCalls <= 1
    /\ (gInputImage = None \/ (IsSome(gInputImage) /\ IsImageDataUrl(Get(gInputImage))))
          => /\ gPc = "ready" => gCalls = 0
             /\ gPc \in {"awaiting", "done"} => gCalls = 1 /\ IsSome(gRequest)

C6_Witness ==
    /\ GenDone
    /\ gInputImage = Some(<<"data:", "image/", "jpg", ";base64,", "A", "A">>)
    /\ ~GenResult.success
    /\ gCalls = 1

----------------------------------------------------------------------------
(* Properties of GeminiHandler.calculateCost, checked under SpecCost *)

CostDone == cPc = "done"
CostReturned == Get(cReturn)     \* the returned value: None is `undefined`

AllPricesDefined(info) ==
    info.inputPrice # None /\ info.outputPrice # None /\ info.cacheReadsPrice # None

\* C8: calculateCost returns undefined whenever the price table lacks any one of
\* inputPrice, outputPrice, cacheReadsPrice -- whatever the other prices, the
\* tiers and the token counts (also with cacheReadTokens = 0 or not given).
C8_MissingPriceGivesUndefined ==
    (CostDone /\ ~AllPricesDefined(cInfo)) => cReturn = Some(None)

C8_Witness ==
    /\ CostDone
    /\ cInfo.inputPrice = Some(2 * PriceScale)
    /\ cInfo.outputPrice = Some(10 * PriceScale)
    /\ cInfo.cacheReadsPrice = None
    /\ cInfo.tiers # None
    /\ cInputTokens > 0
    /\ cCacheReadTokens = Some(0)
    /\ cReturn = Some(None)

\* C9: calculateCost returns undefined ONLY when a price is absent: with all
\* three prices defined (a defined price may be 0) it returns a number.
C9_DefinedPricesGiveNumber ==
    (CostDone /\ AllPricesDefined(cInfo)) => CostReturned # None

\* The total of the claimed formula, in the units of the model.
ClaimedTotal(info, inputTokens, outputTokens, cacheReadTokensArg) ==
    LET p == EffectivePrices(info, inputTokens)
        cacheReadTokens == IF cacheReadTokensArg = None THEN 0 ELSE Get(cacheReadTokensArg)
    IN  p.inputPrice * (inputTokens - cacheReadTokens)
        + p.outputPrice * outputTokens
        + (IF cacheReadTokens > 0 THEN p.cacheReadsPrice * cacheReadTokens ELSE 0)

\* C10: for a model with all three prices available the returned total is
\* inputPrice * (inputTokens - cacheReadTokens) / 1e6 + outputPrice * outputTokens
\* / 1e6 + (cacheReadsPrice * cacheReadTokens / 1e6 if cacheReadTokens > 0, else 0),
\* with the prices in force after tier selection, cacheReadTokens defaulting to 0
\* and no clamping of the subtraction.
C10_TotalIsFormula ==
    (CostDone /\ AllPricesDefined(cInfo))
        => cReturn = Some(Some(ClaimedTotal(cInfo, cInputTokens, cOutputTokens,
                                            cCacheReadTokens)))

\* The same statement for price tables whose three base prices are non-zero (not
\* a claim of its own: it shows where C10 fails and where it does not).
C10_HoldsForNonZeroPrices ==
    (/\ CostDone
     /\ AllPricesDefined(cInfo)
     /\ Get(cInfo.inputPrice) # 0 /\ Get(cInfo.outputPrice) # 0
     /\ Get(cInfo.cacheReadsPrice) # 0)
        => cReturn = Some(Some(ClaimedTotal(cInfo, cInputTokens, cOutputTokens,
                                            cCacheReadTokens)))

\* The worked example: prices (2, 10, 1) with 2,000,000 input, 500,000 output and
\* 1,000,000 cache-read tokens give 2 + 5 + 1 = 8.
C10_ExampleGivesEight ==
    (/\ CostDone
     /\ cInfo = [inputPrice |-> Some(2 * PriceScale), outputPrice |-> Some(10 * PriceScale),
                 cacheReadsPrice |-> Some(1 * PriceScale), tiers |-> None]
     /\ cInputTokens = 2 * PerMillion
     /\ cOutputTokens * 2 = PerMillion
     /\ cCacheReadTokens = Some(PerMillion))
        => cReturn = Some(Some(8 * PriceScale * PerMillion))

\* The position of the first tier, in listed order, whose contextWindow is at
\* least the total input token count; 0 when there is none.
C11_TierIndex ==
    LET tiers == Get(cInfo.tiers)
        fits == {i \in 1..Len(tiers) : tiers[i].contextWindow >= cInputTokens}
    IN  IF fits = {} THEN 0 ELSE CHOOSE i \in fits : \A j \in fits : i <= j

\* The price the tier rule puts in force for one of the three price fields.
C11_Price(field) ==
    IF C11_TierIndex # 0 /\ Get(cInfo.tiers)[C11_TierIndex][field] # None
    THEN Get(Get(cInfo.tiers)[C11_TierIndex][field])
    ELSE Get(cInfo[field])

\* C11: when the model defines tiers and a cost is calculated, the prices used
\* are those of the first tier in listed order whose contextWindow is >= the
\* total inputTokens (cache reads not subtracted), field by field where the tier
\* defines the field and the base price otherwise; the base prices when no tier
\* fits.  The returned total is the one these prices give.
C11_FirstFittingTierPrices ==
    (CostDone /\ IsSome(cTrace) /\ IsSome(cInfo.tiers)) =>
        LET cacheReadTokens == IF cCacheReadTokens = None THEN 0 ELSE Get(cCacheReadTokens)
        IN  /\ Get(cTrace).input.price = C11_Price("inputPrice")
            /\ Get(cTrace).output.price = C11_Price("outputPrice")
            /\ IsSome(Get(cTrace).cacheRead) =>
                  Get(Get(cTrace).cacheRead).price = C11_Price("cacheReadsPrice")
            /\ cReturn = Some(Some(
                  C11_Price("inputPrice") * (cInputTokens - cacheReadTokens)
                  + C11_Price("outputPrice") * cOutputTokens
                  + (IF cacheReadTokens > 0
                     THEN C11_Price("cacheReadsPrice") * cacheReadTokens ELSE 0)))

\* The worked example: tiers [{128000, inputPrice 1}, {1000000, inputPrice 0.5}]
\* and 500000 input tokens, all of them cache reads, so that the uncached count
\* would fit the first tier; input price 0.5 is used.
C11_Witness ==
    /\ CostDone
    /\ cInfo.tiers = Some(<<Tier(128000, Some(PriceScale), None, None),
                            Tier(1000000, Some(1), None, None)>>)
    /\ cInputTokens = 500000
    /\ cCacheReadTokens = Some(500000)
    /\ IsSome(cTrace)
    /\ Get(cTrace).input.price * 2 = PriceScale
    /\ Get(cTrace).output.price = Get(cInfo.outputPrice)

\* C12: when prices are available calculateCost returns, together with the total,
\* the per-category breakdown (price, token count, sub-cost) for input, output
\* and -- when cacheReadTokens > 0 -- cache-read, and the total is the sum of the
\* sub-costs of that breakdown.
C12_BreakdownReturned ==
    (CostDone /\ ~PricesUnavailable(cInfo)) =>
        /\ IsSome(cReturnedTrace)
        /\ Get(cReturnedTrace) = Get(cTrace)
        /\ CostReturned =
              Some(Get(cTrace).input.cost + Get(cTrace).output.cost
                   + (IF IsSome(Get(cTrace).cacheRead)
                      THEN Get(Get(cTrace).cacheRead).cost ELSE 0))

\* What does hold: the breakdown is built as described and sums to the returned
\* total, but only as a local of the call.
C12_LocalBreakdownSumsToTotal ==
    (CostDone /\ ~PricesUnavailable(cInfo)) =>
        LET cacheReadTokens == IF cCacheReadTokens = None THEN 0 ELSE Get(cCacheReadTokens)
            trace == Get(cTrace)
        IN  /\ trace.input.tokens = cInputTokens - cacheReadTokens
            /\ trace.input.cost = trace.input.price * trace.input.tokens
            /\ trace.output.tokens = cOutputTokens
            /\ trace.output.cost = trace.output.price * trace.output.tokens
            /\ IsSome(trace.cacheRead) <=> cacheReadTokens > 0
            /\ IsSome(trace.cacheRead) =>
                  /\ Get(trace.cacheRead).tokens = cacheReadTokens
                  /\ Get(trace.cacheRead).cost = Get(trace.cacheRead).price * cacheReadTokens
            /\ CostReturned =
                  Some(trace.input.cost + trace.output.cost
                       + (IF IsSome(trace.cacheRead) THEN Get(trace.cacheRead).cost ELSE 0))

----------------------------------------------------------------------------
(* Properties of generateImageTool, under SpecTool *)

ToolDone == tPc = "done"

\* The settings snapshot the invocation read.
ToolSettings == Get(tState)

\* The provider the settings select, openrouter when none is set.
C7_Provider ==
    IF IsSome(ToolSettings.imageGenerationProvider)
    THEN Get(ToolSettings.imageGenerationProvider)
    ELSE "openrouter"

\* No Gemini credential: neither a dedicated image key nor a key of the main
\* provider's settings while that provider is Gemini.
C7_NoGeminiKey ==
    /\ ~TruthyStr(ToolSettings.geminiImageApiKey)
    /\ \/ ToolSettings.apiConfiguration.apiProvider # "gemini"
       \/ ~TruthyStr(ToolSettings.apiConfiguration.geminiApiKey)

\* The pre-flight failure of a finished invocation, from the block, the settings
\* and the collaborators' answers, in the order the checks are made; "none" when
\* every check passed or when the block was partial (a partial block with the
\* experiment enabled returns before any parameter is looked at).
C7_Failure ==
    IF ~IsSome(tState) \/ ~ToolSettings.experimentEnabled THEN "experimentDisabled"
    ELSE IF tBlock.partial THEN "none"
    ELSE IF ~TruthyStr(tBlock.prompt) THEN "missingPrompt"
    ELSE IF ~TruthyStr(tBlock.path) THEN "missingPath"
    ELSE IF tEnv.access # "allowed" THEN "outputAccessDenied"
    ELSE IF TruthyStr(tBlock.image) /\ tEnv.inputExists = "no" THEN "inputMissing"
    ELSE IF TruthyStr(tBlock.image) /\ tEnv.inputAccess # "allowed" THEN "inputAccessDenied"
    ELSE IF TruthyStr(tBlock.image) /\ tEnv.read # "bytes" THEN "inputUnreadable"
    ELSE IF TruthyStr(tBlock.image)
            /\ ImageExtension(Get(tBlock.image)) \notin {"png", "jpg", "jpeg", "gif", "webp"}
         THEN "inputUnsupported"
    ELSE IF C7_Provider = "openrouter"
         THEN IF ~TruthyStr(ToolSettings.openRouterImageApiKey)
              THEN "missingOpenRouterKey" ELSE "none"
    ELSE IF C7_Provider = "gemini"
         THEN IF C7_NoGeminiKey THEN "missingGeminiKey" ELSE "none"
    ELSE "unsupportedProvider"

C7_Failures ==
    {"experimentDisabled", "missingPrompt", "missingPath", "outputAccessDenied",
     "inputMissing", "inputAccessDenied", "inputUnreadable", "inputUnsupported",
     "missingOpenRouterKey", "missingGeminiKey", "unsupportedProvider"}

\* Whether the message of failure f can be formed for this block: the ones that
\* quote a path or the provider need it.
C7_HasMessage(f) ==
    CASE f = "outputAccessDenied" -> TruthyStr(tBlock.path)
      [] f \in {"inputMissing", "inputAccessDenied", "inputUnsupported"} -> TruthyStr(tBlock.image)
      [] f = "unsupportedProvider" -> IsSome(tState)
      [] OTHER -> TRUE

\* The tool result that belongs to failure f.
C7_Message(f) ==
    CASE f = "experimentDisabled" -> ToolError(ExperimentDisabledText)
      [] f = "missingPrompt" -> MissingParamError("prompt")
      [] f = "missingPath" -> MissingParamError("path")
      [] f = "outputAccessDenied" -> ToolError(RooIgnoreError(Get(tBlock.path)))
      [] f = "inputMissing" ->
            ToolError(<<"Input image not found: ">> \o ReadablePath(Get(tBlock.image)))
      [] f = "inputAccessDenied" -> ToolError(RooIgnoreError(Get(tBlock.image)))
      [] f = "inputUnreadable" ->
            ToolError(<<"Failed to read input image: ">>
                      \o (IF tEnv.read = "error" THEN tEnv.readMessage
                          ELSE <<"Unknown error">>))
      [] f = "inputUnsupported" ->
            ToolError(<<"Unsupported image format: ", ImageExtension(Get(tBlock.image)),
                        ". Supported formats: ", "png, jpg, jpeg, gif, webp">>)
      [] f = "missingOpenRouterKey" -> ToolError(OpenRouterKeyText)
      [] f = "missingGeminiKey" -> ToolError(GeminiKeyText)
      [] f = "unsupportedProvider" ->
            ToolError(<<"Unsupported image generation provider: ", C7_Provider>>)

\* C7: every pre-flight failure of generateImageTool (experiment disabled, missing
\* prompt, missing path, output path access denied, input image missing, access
\* to it denied, unreadable or of an unsupported extension, missing OpenRouter or
\* Gemini API key, unsupported provider) ends the invocation with exactly one
\* tool result, the message of that failure, which is the message of no other
\* failure; approval was never asked, neither adapter's generateImage was
\* called, and no directory or file was written.
C7_PreflightFailureEndsQuietly ==
    (ToolDone /\ C7_Failure # "none") =>
        /\ tToolResults = <<C7_Message(C7_Failure)>>
        /\ \A f \in C7_Failures \ {C7_Failure} :
              C7_HasMessage(f) => C7_Message(f) # C7_Message(C7_Failure)
        /\ tAsks = <<>>
        /\ tAdapterCalls = <<>>
        /\ tMkdirs = <<>>
        /\ tWrites = <<>>
        /\ tTracked = <<>>
        /\ ~tDidEditFile
        /\ tHandled = <<>>

\* An invocation with an input image that passed every file check and then
\* stopped at the missing Gemini key, although the settings of another main
\* provider hold a Gemini key.
C7_Witness ==
    /\ ToolDone
    /\ C7_Failure = "missingGeminiKey"
    /\ TruthyStr(tBlock.image)
    /\ tEnv.read = "bytes"
    /\ TruthyStr(ToolSettings.apiConfiguration.geminiApiKey)
    /\ tToolResults = <<ToolError(GeminiKeyText)>>
    /\ tAsks = <<>>

\* The model ids the catalog lists for a provider.
CatalogModelIds(provider) ==
    {getImageGenerationModelsForProvider(provider)[i].modelId :
        i \in DOMAIN getImageGenerationModelsForProvider(provider)}

\* C13: the model id generateImageTool hands to the adapter belongs to the catalog
\* list of the selected provider, whatever the settings hold -- also a stored
\* model string that is not in the catalog or that is the other provider's.
C13_ModelInCatalog ==
    \A i \in DOMAIN tAdapterCalls :
        tAdapterCalls[i].model \in CatalogModelIds(tAdapterCalls[i].provider)

\* What does hold: the model is the stored string of the selected provider when
\* there is one, unvalidated, and a catalog entry otherwise.
C13_StoredModelPassedThrough ==
    \A i \in DOMAIN tAdapterCalls :
        LET call == tAdapterCalls[i]
            stored == IF call.provider = "openrouter"
                      THEN ToolSettings.openRouterImageGenerationSelectedModel
                      ELSE ToolSettings.geminiImageGenerationSelectedModel
        IN  IF TruthyStr(stored) THEN call.model = Get(stored)
            ELSE call.model \in CatalogModelIds(call.provider)

\* A data URL both adapters accept as input image: image/png or image/jpeg with a
\* non-empty payload.
C14_Accepted(url) ==
    /\ Len(url) >= 5
    /\ SubSeq(url, 1, 2) = <<"data:", "image/">>
    /\ url[3] \in {"png", "jpeg"}
    /\ url[4] = ";base64,"

\* C14: an input image that generateImageTool passes to an adapter is a data URL
\* the adapter accepts, so that no invocation gets past the approval only to have
\* the adapter reject the input image -- also for gif and webp input files and
\* for empty input files.
C14_InputImageAccepted ==
    /\ \A i \in DOMAIN tAdapterCalls :
          IsSome(tAdapterCalls[i].inputImage) => C14_Accepted(Get(tAdapterCalls[i].inputImage))
    /\ IsSome(tLocals.result) => Get(tLocals.result) # InvalidInputResult

\* What does hold: a non-empty png, jpg or jpeg input file gives an accepted URL.
C14_NonEmptyPngJpegAccepted ==
    \A i \in DOMAIN tAdapterCalls :
        (/\ TruthyStr(tBlock.image)
         /\ ImageExtension(Get(tBlock.image)) \in {"png", "jpg", "jpeg"}
         /\ Len(Get(tAdapterCalls[i].inputImage)) > 4)
            => /\ C14_Accepted(Get(tAdapterCalls[i].inputImage))
               /\ IsSome(tLocals.result) => Get(tLocals.result) # InvalidInputResult

\* The model stored in the settings for a provider of the catalog.
C15_StoredModel(st, provider) ==
    IF provider = "openrouter" THEN st.openRouterImageGenerationSelectedModel
    ELSE st.geminiImageGenerationSelectedModel

\* The first catalog entry of a provider.
C15_FirstCatalogModel(provider) == IMAGE_GENERATION_MODELS[provider][1].modelId

\* C15: with no provider stored, generateImageTool and the settings panel use
\* "openrouter"; with no model stored for the selected provider, the model is the
\* first catalog entry of that same provider -- whatever is stored for the other
\* provider.
C15_Defaults ==
    IsSome(tState) =>
        LET st == Get(tState)
            panelProvider == PanelProvider(st)
        IN  /\ st.imageGenerationProvider = None => panelProvider = "openrouter"
            /\ (/\ panelProvider \in {"openrouter", "gemini"}
                /\ C15_StoredModel(st, panelProvider) = None)
                  => getCurrentSelectedModel(panelProvider, st)
                        = C15_FirstCatalogModel(panelProvider)
            /\ \A i \in DOMAIN tAdapterCalls :
                  LET call == tAdapterCalls[i]
                  IN  /\ st.imageGenerationProvider = None => call.provider = "openrouter"
                      /\ C15_StoredModel(st, call.provider) = None
                            => call.model = C15_FirstCatalogModel(call.provider)

\* Nothing stored but a model for Gemini: the adapter called is OpenRouter's, with
\* the first OpenRouter catalog entry.
C15_Witness ==
    /\ IsSome(tState)
    /\ ToolSettings.imageGenerationProvider = None
    /\ ToolSettings.openRouterImageGenerationSelectedModel = None
    /\ ToolSettings.geminiImageGenerationSelectedModel = Some(<<"imagen-3">>)
    /\ Len(tAdapterCalls) = 1
    /\ tAdapterCalls[1].provider = "openrouter"
    /\ tAdapterCalls[1].model = OpenRouterModelId
    /\ getCurrentSelectedModel(PanelProvider(ToolSettings), ToolSettings) = OpenRouterModelId

----------------------------------------------------------------------------
(* Properties of the catalog, under SpecCatalog *)

\* The model ids registered for each provider, in registration order.
C16_Registered(provider) ==
    IF provider = "openrouter"
    THEN <<<<"google/gemini-2.5-flash-image-preview">>,
           <<"google/gemini-2.5-flash-image-preview", ":free">>>>
    ELSE <<<<"gemini-2.5-flash-image-preview">>>>

----------------------------------------------------------------------------
(* The approval gate and the file write of generateImageTool, under SpecTool *)

\* Nothing has been generated or written.
C17_NothingDone ==
    /\ tAdapterCalls = <<>>
    /\ tMkdirs = <<>>
    /\ tWrites = <<>>
    /\ tTracked = <<>>
    /\ tToolUsage = 0

\* C17: an adapter's generateImage is called, and the output file written, only
\* after askApproval has returned true in the same invocation; a denied approval
\* ends the invocation with no adapter call, no directory creation, no file
\* write, no file-context tracking, didEditFile as it was and no tool-usage
\* record.
C17_ApprovalGate ==
    /\ [](/\ (tAdapterCalls # <<>> \/ tMkdirs # <<>> \/ tWrites # <<>>)
               => (Len(tAsks) = 1 /\ tEnv.approved = "yes")
          /\ tWrites # <<>> => Len(tAdapterCalls) = 1
          /\ tEnv.approved = "no" => (tPc = "done" /\ C17_NothingDone))
    /\ [][/\ tAdapterCalls' # tAdapterCalls
               => (tAsks # <<>> /\ tEnv.approved = "unasked" /\ tEnv'.approved = "yes")
          /\ tWrites' # tWrites => (tEnv.approved = "yes" /\ tAdapterCalls # <<>>)
          /\ tEnv'.approved = "no"
               => (/\ tPc' = "done"
                   /\ UNCHANGED <<tAdapterCalls, tMkdirs, tWrites, tTracked,
                                  tDidEditFile, tToolUsage, tSays, tToolResults>>)]_vars

\* An invocation that asked, was refused, and ended with nothing done.
C17_Witness ==
    /\ tPc = "done"
    /\ Len(tAsks) = 1
    /\ tEnv.approved = "no"
    /\ C17_NothingDone
    /\ ~tDidEditFile
    /\ tToolResults = <<>>

\* The adapter's result of a finished invocation.
ToolAdapterResult == Get(tLocals.result)

\* The write, the bookkeeping that goes with it, and the tool result.
C18_Written ==
    /\ Len(tWrites) = 1
    /\ Len(tTracked) = 1
    /\ tDidEditFile
    /\ tToolUsage = 1

\* C18: the output file is written (didEditFile set, the file tracked, the tool
\* usage recorded) only for an adapter result with success = true and imageData
\* of the form data:image/(png|jpeg|jpg);base64,<payload>, and every adapter
\* result with success = true leads to the write when the file system lets it --
\* also a success whose image is of another image/* subtype such as image/webp.
C18_EverySuccessWritten ==
    /\ (tWrites # <<>> \/ tTracked # <<>> \/ tDidEditFile \/ tToolUsage # 0) =>
          /\ IsSome(tLocals.result)
          /\ ToolAdapterResult.success
          /\ IsSome(ToolAdapterResult.imageData)
          /\ IsImageDataUrl(Get(ToolAdapterResult.imageData))
    /\ (/\ ToolDone
        /\ IsSome(tLocals.result)
        /\ ToolAdapterResult.success
        /\ tEnv.fs \notin {"mkdirThrows", "writeFileThrows"})
          => C18_Written

\* What does hold: the write happens exactly for the successes whose imageData
\* is a png, jpeg or jpg data URL.
C18_WrittenIffPngOrJpeg ==
    (ToolDone /\ IsSome(tLocals.result)
        /\ tEnv.fs \notin {"mkdirThrows", "writeFileThrows"})
      => (C18_Written <=>
             /\ ToolAdapterResult.success
             /\ IsSome(ToolAdapterResult.imageData)
             /\ IsImageDataUrl(Get(ToolAdapterResult.imageData)))

----------------------------------------------------------------------------
(* Properties of GeminiHandler.createMessage, under SpecStream *)

C19_Textual(event) == event.type \in {"text", "reasoning"}

\* The text and reasoning events of the chunks received, chunk after chunk.
RECURSIVE C19_InArrivalOrder(_)
C19_InArrivalOrder(chunks) ==
    IF chunks = <<>> THEN <<>>
    ELSE ChunkEvents(Head(chunks)) \o C19_InArrivalOrder(Tail(chunks))

\* The chunks that carried grounding metadata, and those that carried usage
\* metadata, by position.
C19_WithGrounding ==
    {i \in DOMAIN sChunks :
        /\ IsSome(sChunks[i].candidates)
        /\ Len(Get(sChunks[i].candidates)) > 0
        /\ Get(sChunks[i].candidates)[1].groundingMetadata # None}
C19_WithUsage == {i \in DOMAIN sChunks : sChunks[i].usageMetadata # None}

C19_Last(S) == CHOOSE i \in S : \A j \in S : j <= i

\* The last-seen grounding metadata has a source with a uri.
C19_HasSource ==
    /\ C19_WithGrounding # {}
    /\ LET gm == Get(Get(sChunks[C19_Last(C19_WithGrounding)].candidates)[1].groundingMetadata)
       IN  /\ gm.groundingChunks # None
           /\ \E k \in DOMAIN Get(gm.groundingChunks) :
                 LET web == Get(gm.groundingChunks)[k].web
                 IN  web # None /\ Get(web).uri # None /\ Get(Get(web).uri) # <<>>

C19_Positions(type) == {i \in DOMAIN sEvents : sEvents[i].type = type}

\* C19: createMessage yields the text and reasoning events in chunk arrival order
\* while the stream is drained; only after the last chunk it yields at most one
\* grounding event -- when the last-seen grounding metadata has a source with a
\* uri -- and then at most one usage event, which carries the token counts of
\* the last chunk that had usage metadata; no text or reasoning event follows a
\* grounding or usage event.
C19_EventOrder ==
    /\ SelectSeq(sEvents, C19_Textual) = C19_InArrivalOrder(sChunks)
    /\ \A i, j \in DOMAIN sEvents :
          (i < j /\ ~C19_Textual(sEvents[i])) => ~C19_Textual(sEvents[j])
    /\ Cardinality(C19_Positions("grounding")) <= 1
    /\ Cardinality(C19_Positions("usage")) <= 1
    /\ \A i \in C19_Positions("grounding") : \A j \in C19_Positions("usage") : i < j
    /\ sPc # "done" => \A i \in DOMAIN sEvents : C19_Textual(sEvents[i])
    /\ sPc = "done" =>
          /\ C19_Positions("grounding") # {} <=> C19_HasSource
          /\ C19_Positions("usage") # {} <=> C19_WithUsage # {}
          /\ \A i \in C19_Positions("usage") :
                LET usage == Get(sEvents[i].usage)
                    last == Get(sChunks[C19_Last(C19_WithUsage)].usageMetadata)
                IN  /\ usage.inputTokens =
                          (IF last.promptTokenCount = None THEN 0
                           ELSE Get(last.promptTokenCount))
                    /\ usage.outputTokens =
                          (IF last.candidatesTokenCount = None THEN 0
                           ELSE Get(last.candidatesTokenCount))
                    /\ usage.cacheReadTokens = last.cachedContentTokenCount
                    /\ usage.reasoningTokens = last.thoughtsTokenCount

\* A stream of three chunks, two of them with different usage metadata, that
\* ended with a reasoning, two text, a grounding and a usage event, the usage of
\* the later chunk.
C19_Witness ==
    /\ sPc = "done"
    /\ Len(sChunks) = 3
    /\ [i \in DOMAIN sEvents |-> sEvents[i].type]
          = <<"reasoning", "text", "text", "grounding", "usage">>
    /\ sChunks[1].usageMetadata # None
    /\ Get(sChunks[1].usageMetadata).promptTokenCount = Some(1000000)
    /\ Get(sEvents[5].usage).inputTokens = 2000000
    /\ Len(Get(sEvents[4].sources)) = 2

====
